---- MODULE Spec2Model ----
(***************************************************************************)
(* SimpleShader: a shader program object (ISimpleShader and its stage      *)
(* specialisations) as a state machine.  One program instance, the         *)
(* compiled binaries it can be asked to load, and the part of the          *)
(* Direct3D pipeline it talks to.                                          *)
(***************************************************************************)
EXTENDS Integers, Sequences, FiniteSets, TLC

(* ------------------------------------------------------------------ *)
(* Bounds of the model                                                  *)
(* ------------------------------------------------------------------ *)

\* bytes handed to SetData are drawn from 0..MaxByte
MaxByte == 1
\* the size argument of SetData is drawn from 0..MaxSize
MaxSize == 2
\* Load is not taken once the ordered descriptor lists hold this many entries
MaxViews == 2
\* buffer indices handed to CopyBufferData are drawn from 0..MaxIndex
MaxIndex == 2

Byte == 0..MaxByte
Stages == {"vertex", "pixel", "geometry", "compute"}
Kinds == {"cb", "srv", "samp", "uav"}
Slots == 0..2
Handles == {"h1", "h2"}

(* ------------------------------------------------------------------ *)
(* Compiled binaries on disk: what D3DReadFileToBlob, Create*Shader and *)
(* D3DReflect report for each file                                      *)
(* ------------------------------------------------------------------ *)

NoThreads == <<0, 0, 0>>

\* a path with no file behind it
Missing == [readable |-> FALSE, stage |-> "none", cbs |-> <<>>, res |-> <<>>,
            inputs |-> <<>>, outputs |-> <<>>, threads |-> NoThreads]

\* pixel shader: a true constant buffer, a texture buffer, a texture, a sampler
PsA == [readable |-> TRUE, stage |-> "pixel",
        cbs |-> << [Name |-> "cb0", Type |-> "D3D11_CT_CBUFFER", Size |-> 2,
                    Variables |-> << [Name |-> "x", StartOffset |-> 0, Size |-> 2] >>],
                   [Name |-> "tb1", Type |-> "D3D11_CT_TBUFFER", Size |-> 1,
                    Variables |-> << [Name |-> "y", StartOffset |-> 0, Size |-> 1] >>] >>,
        res |-> << [Name |-> "cb0", Type |-> "D3D_SIT_CBUFFER", BindPoint |-> 1],
                   [Name |-> "tb1", Type |-> "D3D_SIT_TBUFFER", BindPoint |-> 0],
                   [Name |-> "tex", Type |-> "D3D_SIT_TEXTURE", BindPoint |-> 2],
                   [Name |-> "smp", Type |-> "D3D_SIT_SAMPLER", BindPoint |-> 1] >>,
        inputs |-> <<>>, outputs |-> <<>>, threads |-> NoThreads]

\* pixel shader: one constant buffer, x at another offset and of another size
PsB == [readable |-> TRUE, stage |-> "pixel",
        cbs |-> << [Name |-> "cb0", Type |-> "D3D11_CT_CBUFFER", Size |-> 2,
                    Variables |-> << [Name |-> "w", StartOffset |-> 0, Size |-> 1],
                                     [Name |-> "x", StartOffset |-> 1, Size |-> 1] >>] >>,
        res |-> << [Name |-> "cb0", Type |-> "D3D_SIT_CBUFFER", BindPoint |-> 1] >>,
        inputs |-> <<>>, outputs |-> <<>>, threads |-> NoThreads]

\* pixel shader: two one-byte buffers, a texture, a sampler
PsC == [readable |-> TRUE, stage |-> "pixel",
        cbs |-> << [Name |-> "tb1", Type |-> "D3D11_CT_TBUFFER", Size |-> 1,
                    Variables |-> << [Name |-> "y", StartOffset |-> 0, Size |-> 1] >>],
                   [Name |-> "cb0", Type |-> "D3D11_CT_CBUFFER", Size |-> 1,
                    Variables |-> << [Name |-> "x", StartOffset |-> 0, Size |-> 1] >>] >>,
        res |-> << [Name |-> "tb1", Type |-> "D3D_SIT_TBUFFER", BindPoint |-> 0],
                   [Name |-> "cb0", Type |-> "D3D_SIT_CBUFFER", BindPoint |-> 2],
                   [Name |-> "tex", Type |-> "D3D_SIT_TEXTURE", BindPoint |-> 1],
                   [Name |-> "smp", Type |-> "D3D_SIT_SAMPLER", BindPoint |-> 0] >>,
        inputs |-> <<>>, outputs |-> <<>>, threads |-> NoThreads]

\* a vertex shader without resources (the wrong stage for a pixel program)
VsPlain == [readable |-> TRUE, stage |-> "vertex", cbs |-> <<>>, res |-> <<>>,
            inputs |-> <<>>, outputs |-> <<>>, threads |-> NoThreads]

\* the files of the staging runs
PixelDisk == [f \in {"missing.cso", "vs.cso", "psA.cso", "psB.cso"} |->
                CASE f = "missing.cso" -> Missing
                  [] f = "vs.cso" -> VsPlain
                  [] f = "psA.cso" -> PsA
                  [] f = "psB.cso" -> PsB]

\* the files of the binding runs
BindDisk == [f \in {"missing.cso", "vs.cso", "psC.cso"} |->
                CASE f = "missing.cso" -> Missing
                  [] f = "vs.cso" -> VsPlain
                  [] f = "psC.cso" -> PsC]

\* names handed to the by-name operations
VariableNames == {"x", "y", "nope"}
BufferNames == {"cb0", "tb1", "nope"}
ResourceNames == {"tex", "nope"}
SamplerNames == {"smp", "nope"}

(* ------------------------------------------------------------------ *)
(* State                                                                *)
(* ------------------------------------------------------------------ *)

VARIABLES
    disk,                  \* file name -> compiled binary
    stage,                 \* which specialisation this object is
    shaderValid,
    shader,                \* the stage's shader object: the file it was created from, or "null"
    constantBufferCount,
    constantBuffers,       \* the SimpleConstantBuffer array, with each GPU buffer's contents
    cbPtr,                 \* the constantBuffers pointer: "null", "live" or "freed"
    varTable, cbTable, samplerTable, textureTable, uavTable,
    shaderResourceViews, samplerStates,
    threadsX, threadsY, threadsZ,
    inputLayout, perInstanceCompatible,
    useStreamOut, allowStreamOutRasterization, streamOutVertexSize,
    bound,                 \* the device context: what is bound at each stage's slots
    activeShader,          \* the device context: the shader set on each stage
    iaLayout,              \* the device context: the input layout set
    freedTwice,            \* some heap block has been deleted twice
    crashed,               \* the process died
    call,                  \* the last call on the object: arguments, result, device calls
    caller                 \* the calling code: where it is and what it remembers

vars == <<disk, stage, shaderValid, shader, constantBufferCount, constantBuffers, cbPtr,
          varTable, cbTable, samplerTable, textureTable, uavTable,
          shaderResourceViews, samplerStates, threadsX, threadsY, threadsZ,
          inputLayout, perInstanceCompatible, useStreamOut,
          allowStreamOutRasterization, streamOutVertexSize, bound, activeShader, iaLayout,
          freedTwice, crashed, call, caller>>

\* the fields of the object itself
object == <<shaderValid, shader, constantBufferCount, constantBuffers, cbPtr,
            varTable, cbTable, samplerTable, textureTable, uavTable,
            shaderResourceViews, samplerStates, threadsX, threadsY, threadsZ,
            inputLayout, perInstanceCompatible, useStreamOut,
            allowStreamOutRasterization, streamOutVertexSize, freedTwice, crashed>>

\* the device context
context == <<bound, activeShader, iaLayout>>

EmptyTable == [n \in {} |-> 0]
NoLayout == [set |-> FALSE, custom |-> FALSE, elems |-> <<>>]
NoCall == [op |-> "none", name |-> "", size |-> 0, data |-> <<>>, index |-> 0,
           handle |-> "", ret |-> FALSE, gpu |-> <<>>]
NullBinding == [obj |-> "null", file |-> "", idx |-> 0, arg |-> 0]

\* one call on the device context
GpuCall(fn, slot, file, idx, obj, data) ==
    [fn |-> fn, slot |-> slot, file |-> file, idx |-> idx, obj |-> obj, data |-> data,
     elems |-> <<>>]

\* ISimpleShader::ISimpleShader, before the constructor of the specialisation loads
Constructed(st) ==
    /\ stage = st
    /\ shaderValid = FALSE
    /\ shader = "null"
    /\ constantBufferCount = 0
    /\ constantBuffers = <<>>
    /\ cbPtr = "null"
    /\ varTable = EmptyTable /\ cbTable = EmptyTable
    /\ samplerTable = EmptyTable /\ textureTable = EmptyTable /\ uavTable = EmptyTable
    /\ shaderResourceViews = <<>> /\ samplerStates = <<>>
    /\ threadsX = 0 /\ threadsY = 0 /\ threadsZ = 0
    /\ bound = [k \in Stages \X Kinds \X Slots |-> NullBinding]
    /\ activeShader = [s \in Stages |-> "null"]
    /\ iaLayout = NoLayout
    /\ freedTwice = FALSE
    /\ crashed = FALSE
    /\ call = NoCall

\* the stream-output fields of a program that does not use stream output
NoStreamOut ==
    /\ useStreamOut = FALSE
    /\ allowStreamOutRasterization = FALSE
    /\ streamOutVertexSize = 0

\* calling code that keeps nothing between calls
NoCaller == [pc |-> "any", name |-> "", first |-> <<>>, second |-> <<>>]

Init ==
    /\ disk = PixelDisk
    /\ Constructed("pixel")
    /\ inputLayout = NoLayout
    /\ perInstanceCompatible = FALSE
    /\ NoStreamOut
    /\ caller = NoCaller

(* ------------------------------------------------------------------ *)
(* ISimpleShader::CleanUp and the CleanUp of the specialisations         *)
(* ------------------------------------------------------------------ *)

\* std::unordered_map::insert: an existing key keeps its value
Insert(t, n, v) == IF n \in DOMAIN t THEN t ELSE [m \in DOMAIN t \cup {n} |-> IF m = n THEN v ELSE t[m]]

\* every descriptor of the list deleted, the list itself left as it is
DeleteAll(list) == [i \in DOMAIN list |-> [list[i] EXCEPT !.live = FALSE]]

\* CleanUp deletes a block that an earlier CleanUp deleted already
CleanUpFreesTwice ==
    \/ cbPtr = "freed"
    \/ \E i \in DOMAIN shaderResourceViews : ~shaderResourceViews[i].live
    \/ \E i \in DOMAIN samplerStates : ~samplerStates[i].live

\* a CleanUp that leaves the variable table as it is
CleanUpKeepsVariables ==
    [constantBufferCount |-> IF cbPtr = "null" THEN constantBufferCount ELSE 0,
     constantBuffers |-> <<>>,
     cbPtr |-> IF cbPtr = "null" THEN "null" ELSE "freed",
     shaderResourceViews |-> DeleteAll(shaderResourceViews),
     samplerStates |-> DeleteAll(samplerStates),
     varTable |-> varTable,
     cbTable |-> EmptyTable,
     samplerTable |-> EmptyTable,
     textureTable |-> EmptyTable,
     uavTable |-> EmptyTable]

\* the object's fields after CleanUp has returned
CleanUp ==
    [constantBufferCount |-> IF cbPtr = "null" THEN constantBufferCount ELSE 0,
     constantBuffers |-> <<>>,
     cbPtr |-> IF cbPtr = "null" THEN "null" ELSE "freed",
     shaderResourceViews |-> DeleteAll(shaderResourceViews),
     samplerStates |-> DeleteAll(samplerStates),
     varTable |-> EmptyTable,
     cbTable |-> EmptyTable,
     samplerTable |-> EmptyTable,
     textureTable |-> EmptyTable,
     \* SimpleComputeShader::CleanUp; the other stages have no such table
     uavTable |-> EmptyTable]

(* ------------------------------------------------------------------ *)
(* ISimpleShader::LoadShaderFile: the reflection loops                   *)
(* ------------------------------------------------------------------ *)

TextureTypes == {"D3D_SIT_STRUCTURED", "D3D_SIT_TEXTURE"}
SamplerTypes == {"D3D_SIT_SAMPLER"}
UavTypes == {"D3D_SIT_UAV_APPEND_STRUCTURED", "D3D_SIT_UAV_CONSUME_STRUCTURED",
             "D3D_SIT_UAV_RWBYTEADDRESS", "D3D_SIT_UAV_RWSTRUCTURED",
             "D3D_SIT_UAV_RWSTRUCTURED_WITH_COUNTER", "D3D_SIT_UAV_RWTYPED"}

\* one pass of the bound-resource switch; table values are the position of the
\* descriptor in the ordered list (the pointer the code stores)
ResourceStep(acc, r) ==
    IF r.Type \in TextureTypes
    THEN [acc EXCEPT
            !.srvs = Append(@, [BindIndex |-> r.BindPoint, Index |-> Len(@), live |-> TRUE]),
            !.tex = Insert(@, r.Name, Len(acc.srvs) + 1)]
    ELSE IF r.Type \in SamplerTypes
    THEN [acc EXCEPT
            !.samps = Append(@, [BindIndex |-> r.BindPoint, Index |-> Len(@), live |-> TRUE]),
            !.samp = Insert(@, r.Name, Len(acc.samps) + 1)]
    ELSE acc

RECURSIVE BoundResources(_, _, _)
BoundResources(res, r, acc) ==
    IF r > Len(res) THEN acc ELSE BoundResources(res, r + 1, ResourceStep(acc, res[r]))

\* GetResourceBindingDescByName; reflection lists every buffer among the resources
BindPointByName(res, name) ==
    LET hits == {r \in DOMAIN res : res[r].Name = name}
    IN res[CHOOSE r \in hits : \A q \in hits : r <= q].BindPoint

\* a block left as the allocator returned it, one byte short
NoZeroMemory(size) == [i \in 1..(size - 1) |-> 1]

\* new unsigned char[size] followed by ZeroMemory
ZeroMemory(size) == [i \in 1..size |-> 0]

\* the entry of constantBuffers[b] (b counted from 0) for buffer description bd
NewConstantBuffer(f, d, b, gpu) ==
    LET bd == d.cbs[b + 1] IN
    [Name |-> bd.Name,
     Type |-> bd.Type,
     BindIndex |-> BindPointByName(d.res, bd.Name),
     Size |-> bd.Size,
     LocalDataBuffer |-> ZeroMemory(bd.Size),
     Variables |-> [v \in DOMAIN bd.Variables |->
                      [ConstantBufferIndex |-> b,
                       ByteOffset |-> bd.Variables[v].StartOffset,
                       Size |-> bd.Variables[v].Size]],
     ConstantBuffer |-> [file |-> f, idx |-> b, contents |-> gpu]]

\* a loop that records each variable one byte further on
RECURSIVE VariableLoopShifted(_, _, _, _)
VariableLoopShifted(bd, b, v, table) ==
    IF v > Len(bd.Variables) THEN table
    ELSE VariableLoopShifted(bd, b, v + 1,
            Insert(table, bd.Variables[v].Name,
                   [ConstantBufferIndex |-> b,
                    ByteOffset |-> bd.Variables[v].StartOffset + 1,
                    Size |-> bd.Variables[v].Size]))

\* the variable loop of LoadShaderFile for buffer b, variable v onwards
RECURSIVE VariableLoop(_, _, _, _)
VariableLoop(bd, b, v, table) ==
    IF v > Len(bd.Variables) THEN table
    ELSE VariableLoop(bd, b, v + 1,
            Insert(table, bd.Variables[v].Name,
                   [ConstantBufferIndex |-> b,
                    ByteOffset |-> bd.Variables[v].StartOffset,
                    Size |-> bd.Variables[v].Size]))

RECURSIVE BufferLoopVars(_, _, _)
BufferLoopVars(cbs, b, table) ==
    IF b >= Len(cbs) THEN table
    ELSE BufferLoopVars(cbs, b + 1, VariableLoop(cbs[b + 1], b, 1, table))

RECURSIVE BufferLoopNames(_, _, _)
BufferLoopNames(cbs, b, table) ==
    IF b >= Len(cbs) THEN table
    ELSE BufferLoopNames(cbs, b + 1, Insert(table, cbs[b + 1].Name, b))

\* what one buffer created without initial data may hold: any bytes; above
\* MaxSize bytes only the contents that repeat one byte are followed
FreshBuffer(size) ==
    IF size <= MaxSize THEN [1..size -> Byte]
    ELSE {[i \in 1..size |-> v] : v \in Byte}

\* what the buffers created without initial data may hold
FreshContents(d) ==
    {g \in [DOMAIN d.cbs -> UNION {FreshBuffer(d.cbs[b].Size) : b \in DOMAIN d.cbs}] :
        \A b \in DOMAIN d.cbs : g[b] \in FreshBuffer(d.cbs[b].Size)}

(* ------------------------------------------------------------------ *)
(* SimpleVertexShader::CreateShader: the input layout                    *)
(* ------------------------------------------------------------------ *)

PerInstanceStr == <<"_", "P", "E", "R", "_", "I", "N", "S", "T", "A", "N", "C", "E">>

\* a test that finds the marker anywhere in the name
ContainsPerInstance(sem) ==
    \E k \in 0..(Len(sem) - Len(PerInstanceStr)) :
       SubSeq(sem, k + 1, k + Len(PerInstanceStr)) = PerInstanceStr

\* sem.compare(lenDiff, perInstanceStr.size(), perInstanceStr) == 0
IsPerInstance(sem) ==
    LET lenDiff == Len(sem) - Len(PerInstanceStr) IN
    /\ lenDiff >= 0
    /\ SubSeq(sem, lenDiff + 1, lenDiff + Len(PerInstanceStr)) = PerInstanceStr

Suffix(ctype) ==
    CASE ctype = "D3D_REGISTER_COMPONENT_UINT32" -> "UINT"
      [] ctype = "D3D_REGISTER_COMPONENT_SINT32" -> "SINT"
      [] ctype = "D3D_REGISTER_COMPONENT_FLOAT32" -> "FLOAT"
      [] OTHER -> "UNKNOWN"

\* a format chosen by the number of bits set in the mask
DxgiFormatByCount(mask, ctype) ==
    LET n == IF mask \in 1..15
             THEN Cardinality({w \in {1, 2, 4, 8} : (mask \div w) % 2 = 1})
             ELSE 0
    IN IF n = 0 \/ Suffix(ctype) = "UNKNOWN"
       THEN [components |-> 0, kind |-> "UNKNOWN"]
       ELSE [components |-> n, kind |-> Suffix(ctype)]

\* the DXGI format as [components, scalar kind]; components 0 is DXGI_FORMAT_UNKNOWN
DxgiFormat(mask, ctype) ==
    LET n == IF mask = 1 THEN 1
             ELSE IF mask <= 3 THEN 2
             ELSE IF mask <= 7 THEN 3
             ELSE IF mask <= 15 THEN 4
             ELSE 0
    IN IF n = 0 \/ Suffix(ctype) = "UNKNOWN"
       THEN [components |-> 0, kind |-> "UNKNOWN"]
       ELSE [components |-> n, kind |-> Suffix(ctype)]

InputElement(p) ==
    [SemanticName |-> p.SemanticName,
     SemanticIndex |-> p.SemanticIndex,
     InputSlot |-> IF IsPerInstance(p.SemanticName) THEN 1 ELSE 0,
     InputSlotClass |-> IF IsPerInstance(p.SemanticName)
                        THEN "D3D11_INPUT_PER_INSTANCE_DATA"
                        ELSE "D3D11_INPUT_PER_VERTEX_DATA",
     InstanceDataStepRate |-> IF IsPerInstance(p.SemanticName) THEN 1 ELSE 0,
     Format |-> DxgiFormat(p.Mask, p.ComponentType)]

InputLayoutDesc(inputs) == [i \in DOMAIN inputs |-> InputElement(inputs[i])]

\* ID3D11Device::CreateInputLayout refuses an element of unknown format
CreateInputLayoutOk(desc) == \A i \in DOMAIN desc : desc[i].Format.components # 0

(* ------------------------------------------------------------------ *)
(* ISimpleShader::LoadShaderFile with the CreateShader of the stage      *)
(* ------------------------------------------------------------------ *)

\* a device that takes any blob for any stage
CreateShaderAlways(d) == TRUE

\* the HRESULT test of the stage's CreateShader: the device takes the blob
\* only as a shader of the stage it was compiled for
CreateShader(d) == d.stage = stage

CreateFn ==
    CASE stage = "vertex" -> "CreateVertexShader"
      [] stage = "pixel" -> "CreatePixelShader"
      [] stage = "geometry" -> IF useStreamOut THEN "CreateGeometryShaderWithStreamOutput"
                               ELSE "CreateGeometryShader"
      [] stage = "compute" -> "CreateComputeShader"

\* a count that takes the mask itself for the number of components
CalcComponentCountIsMask(mask) == mask

\* SimpleGeometryShader::CalcComponentCount
CalcComponentCount(mask) ==
    (IF mask % 2 = 1 THEN 1 ELSE 0)
    + (IF (mask \div 2) % 2 = 1 THEN 1 ELSE 0)
    + (IF (mask \div 4) % 2 = 1 THEN 1 ELSE 0)
    + (IF (mask \div 8) % 2 = 1 THEN 1 ELSE 0)

\* sizeof(float)
SizeofFloat == 4

\* one D3D11_SO_DECLARATION_ENTRY
DeclarationEntry(p) ==
    [SemanticName |-> p.SemanticName,
     SemanticIndex |-> p.SemanticIndex,
     Stream |-> p.Stream,
     StartComponent |-> 0,
     OutputSlot |-> 0,
     ComponentCount |-> CalcComponentCount(p.Mask)]

\* soDecl after the loop over the output parameters
SoDecl(outputs) == [i \in DOMAIN outputs |-> DeclarationEntry(outputs[i])]

\* streamOutVertexSize after the loop has run over outputs i onwards
RECURSIVE VertexSizeLoop(_, _, _)
VertexSizeLoop(outputs, i, size) ==
    IF i > Len(outputs) THEN size
    ELSE VertexSizeLoop(outputs, i + 1,
            size + CalcComponentCount(outputs[i].Mask) * SizeofFloat)

\* the CreateShader of this program goes through CreateShaderWithStreamOut
WithStreamOut == stage = "geometry" /\ useStreamOut

\* streamOutVertexSize once CreateShader has returned
StreamOutVertexSize(d) ==
    IF WithStreamOut THEN VertexSizeLoop(d.outputs, 1, 0) ELSE streamOutVertexSize

\* the second CleanUp of CreateShaderWithStreamOut deletes what the first deleted
SecondCleanUpFreesTwice ==
    WithStreamOut
    /\ (cbPtr # "null" \/ shaderResourceViews # <<>> \/ samplerStates # <<>>)

\* some CleanUp of this load deletes a block that was deleted already
LoadFreesTwice == CleanUpFreesTwice \/ SecondCleanUpFreesTwice

\* &soDecl[0] is evaluated on a vector that holds no element
IndexesEmptyDeclaration(d) == WithStreamOut /\ d.outputs = <<>>

\* the results the device can give when asked to create the shader object: with
\* stream output it also judges the declaration
CreateResults(d) ==
    IF WithStreamOut /\ CreateShader(d) THEN BOOLEAN ELSE {CreateShader(d)}

\* the device call that creates the shader object
CreateCall(f, d) ==
    IF WithStreamOut
    THEN [GpuCall(CreateFn, 0, f, 0,
                  IF allowStreamOutRasterization THEN "0"
                  ELSE "D3D11_SO_NO_RASTERIZED_STREAM", <<>>)
            EXCEPT !.elems = SoDecl(d.outputs)]
    ELSE GpuCall(CreateFn, 0, f, 0, "", <<>>)

\* the UAV loop of SimpleComputeShader::CreateShader
RECURSIVE UavLoop(_, _, _)
UavLoop(res, r, table) ==
    IF r > Len(res) THEN table
    ELSE UavLoop(res, r + 1,
            IF res[r].Type \in UavTypes THEN Insert(table, res[r].Name, res[r].BindPoint)
            ELSE table)

\* &inputLayoutDesc[0] is evaluated on a vector that holds no element
IndexesEmptyLayout(d) ==
    CreateShader(d) /\ stage = "vertex" /\ ~inputLayout.set /\ d.inputs = <<>>

\* the results CreateInputLayout can give for the descriptor: decided by the
\* formats, and by the device alone for a descriptor without elements
CreateInputLayoutResults(desc) ==
    IF desc = <<>> THEN BOOLEAN ELSE {CreateInputLayoutOk(desc)}

\* the device calls of a load that gets past CreateShader
LoadCalls(f, d) ==
    <<CreateCall(f, d)>>
    \o (IF stage = "vertex" /\ ~inputLayout.set
        THEN <<[GpuCall("CreateInputLayout", 0, f, 0, "", <<>>)
                  EXCEPT !.elems = InputLayoutDesc(d.inputs)]>>
        ELSE <<>>)
    \o [b \in DOMAIN d.cbs |-> GpuCall("CreateBuffer", 0, f, b - 1, "", <<>>)]

LoadShaderFile(f) ==
    /\ ~crashed
    /\ LET d == disk[f]
           c == CleanUp
           acc == BoundResources(d.res, 1,
                    [srvs |-> c.shaderResourceViews, tex |-> c.textureTable,
                     samps |-> c.samplerStates, samp |-> c.samplerTable])
           desc == InputLayoutDesc(d.inputs)
       IN
       \/ \* D3DReadFileToBlob fails
          /\ ~d.readable
          /\ call' = [NoCall EXCEPT !.op = "LoadShaderFile", !.name = f, !.ret = FALSE]
          /\ UNCHANGED <<disk, stage, object, context>>
       \/ \* CleanUp deletes a block twice and the heap check ends the process,
          \* or the checked vector ends it when an empty descriptor is indexed
          /\ d.readable
          /\ LoadFreesTwice \/ IndexesEmptyLayout(d) \/ IndexesEmptyDeclaration(d)
          /\ crashed' = TRUE
          /\ call' = [NoCall EXCEPT !.op = "crash", !.name = f]
          /\ UNCHANGED <<disk, stage, shaderValid, shader, constantBufferCount,
                         constantBuffers, cbPtr, varTable, cbTable, samplerTable,
                         textureTable, uavTable, shaderResourceViews, samplerStates,
                         threadsX, threadsY, threadsZ, inputLayout,
                         perInstanceCompatible, useStreamOut,
                         allowStreamOutRasterization, streamOutVertexSize, freedTwice,
                         context>>
       \/ \* CreateShader cleans up and the device refuses the blob
          /\ d.readable
          /\ FALSE \in CreateResults(d)
          /\ shaderValid' = FALSE
          /\ constantBufferCount' = c.constantBufferCount
          /\ constantBuffers' = c.constantBuffers
          /\ cbPtr' = c.cbPtr
          /\ shaderResourceViews' = c.shaderResourceViews
          /\ samplerStates' = c.samplerStates
          /\ varTable' = c.varTable
          /\ cbTable' = c.cbTable
          /\ samplerTable' = c.samplerTable
          /\ textureTable' = c.textureTable
          /\ uavTable' = c.uavTable
          /\ freedTwice' = (freedTwice \/ LoadFreesTwice)
          /\ call' = [NoCall EXCEPT !.op = "LoadShaderFile", !.name = f, !.ret = FALSE,
                                    !.gpu = <<CreateCall(f, d)>>]
          /\ streamOutVertexSize' = StreamOutVertexSize(d)
          /\ UNCHANGED <<disk, stage, shader, threadsX, threadsY, threadsZ, inputLayout,
                         perInstanceCompatible, useStreamOut,
                         allowStreamOutRasterization, crashed, context>>
       \/ \* CreateShader succeeds and the tables are built by reflection
          /\ d.readable
          /\ TRUE \in CreateResults(d)
          /\ Len(acc.srvs) <= MaxViews
          /\ Len(acc.samps) <= MaxViews
          /\ \E g \in FreshContents(d) :
                constantBuffers' =
                    [b \in DOMAIN d.cbs |-> NewConstantBuffer(f, d, b - 1, g[b])]
          /\ shaderValid' = TRUE
          /\ shader' = f
          /\ constantBufferCount' = Len(d.cbs)
          /\ cbPtr' = "live"
          /\ shaderResourceViews' = acc.srvs
          /\ samplerStates' = acc.samps
          /\ textureTable' = acc.tex
          /\ samplerTable' = acc.samp
          /\ varTable' = BufferLoopVars(d.cbs, 0, c.varTable)
          /\ cbTable' = BufferLoopNames(d.cbs, 0, c.cbTable)
          /\ uavTable' = IF stage = "compute" THEN UavLoop(d.res, 1, c.uavTable)
                         ELSE c.uavTable
          /\ threadsX' = IF stage = "compute" THEN d.threads[1] ELSE threadsX
          /\ threadsY' = IF stage = "compute" THEN d.threads[2] ELSE threadsY
          /\ threadsZ' = IF stage = "compute" THEN d.threads[3] ELSE threadsZ
          /\ \E hr \in CreateInputLayoutResults(desc) :
                inputLayout' =
                   IF stage = "vertex" /\ ~inputLayout.set /\ hr
                   THEN [set |-> TRUE, custom |-> FALSE, elems |-> desc]
                   ELSE inputLayout
          /\ perInstanceCompatible' =
                IF stage = "vertex" /\ ~inputLayout.set
                THEN perInstanceCompatible
                     \/ \E i \in DOMAIN d.inputs : IsPerInstance(d.inputs[i].SemanticName)
                ELSE perInstanceCompatible
          /\ freedTwice' = (freedTwice \/ LoadFreesTwice)
          /\ call' = [NoCall EXCEPT !.op = "LoadShaderFile", !.name = f, !.ret = TRUE,
                                    !.gpu = LoadCalls(f, d)]
          /\ streamOutVertexSize' = StreamOutVertexSize(d)
          /\ UNCHANGED <<disk, stage, useStreamOut, allowStreamOutRasterization, crashed,
                         context>>

(* ------------------------------------------------------------------ *)
(* ISimpleShader::SetData                                                *)
(* ------------------------------------------------------------------ *)

\* a copy that forgets the destination offset
MemcpyAtStart(buf, off, data, size) ==
    [i \in DOMAIN buf |-> IF i <= size THEN data[i] ELSE buf[i]]

\* a copy that merges the new bytes into the old ones
MemcpyAccumulate(buf, off, data, size) ==
    [i \in DOMAIN buf |->
        IF off < i /\ i <= off + size /\ data[i - off] > buf[i] THEN data[i - off]
        ELSE buf[i]]

\* memcpy(buf + off, data, size)
Memcpy(buf, off, data, size) ==
    [i \in DOMAIN buf |-> IF off < i /\ i <= off + size THEN data[i - off] ELSE buf[i]]

\* a lookup that creates the entry it does not find (operator[] instead of find)
FindVariableCreates(name) ==
    IF name \in DOMAIN varTable
    THEN [found |-> TRUE, var |-> varTable[name]]
    ELSE [found |-> TRUE, var |-> [ConstantBufferIndex |-> 0, ByteOffset |-> 0, Size |-> 0]]

NullVariable == [ConstantBufferIndex |-> 0, ByteOffset |-> 0, Size |-> 0]

\* ISimpleShader::FindVariable(name, -1): the table's entry, or 0
FindVariable(name) ==
    IF name \in DOMAIN varTable
    THEN [found |-> TRUE, var |-> varTable[name]]
    ELSE [found |-> FALSE, var |-> NullVariable]

\* the size check left out
NeverTooLarge(size, var) == FALSE

\* size > var->Size
TooLarge(size, var) == size > var.Size

\* the body of SetData, entered from the public function fn
SetDataFrom(fn, name, data, size) ==
    /\ ~crashed
    /\ LET var == FindVariable(name)
           op == [NoCall EXCEPT !.op = fn, !.name = name, !.data = data, !.size = size]
       IN
       \/ /\ ~var.found
          /\ call' = op
          /\ UNCHANGED <<disk, stage, object, context>>
       \/ /\ var.found
          /\ TooLarge(size, var.var)
          /\ call' = op
          /\ UNCHANGED <<disk, stage, object, context>>
       \/ /\ var.found
          /\ ~TooLarge(size, var.var)
          /\ constantBuffers' =
                [constantBuffers EXCEPT ![var.var.ConstantBufferIndex + 1].LocalDataBuffer =
                    Memcpy(@, var.var.ByteOffset, data, size)]
          /\ call' = [op EXCEPT !.ret = TRUE]
          /\ UNCHANGED <<disk, stage, shaderValid, shader, constantBufferCount, cbPtr,
                         varTable, cbTable, samplerTable, textureTable, uavTable,
                         shaderResourceViews, samplerStates, threadsX, threadsY, threadsZ,
                         inputLayout, perInstanceCompatible, useStreamOut,
                         allowStreamOutRasterization, streamOutVertexSize, freedTwice,
                         crashed, context>>

SetData(name, data, size) == SetDataFrom("SetData", name, data, size)

(* ------------------------------------------------------------------ *)
(* The typed setters of ISimpleShader                                    *)
(* ------------------------------------------------------------------ *)

SizeofInt == 4

SetInt(name, data) == SetDataFrom("SetInt", name, data, SizeofInt)

SetFloat(name, data) == SetDataFrom("SetFloat", name, data, SizeofFloat)

SetFloat2(name, data) == SetDataFrom("SetFloat2", name, data, SizeofFloat * 2)

\* a setter of three floats that copies two
SetFloat3Short(name, data) == SetDataFrom("SetFloat3", name, data, SizeofFloat * 2)

SetFloat3(name, data) == SetDataFrom("SetFloat3", name, data, SizeofFloat * 3)

SetFloat4(name, data) == SetDataFrom("SetFloat4", name, data, SizeofFloat * 4)

SetMatrix4x4(name, data) == SetDataFrom("SetMatrix4x4", name, data, SizeofFloat * 16)

(* ------------------------------------------------------------------ *)
(* ISimpleShader::CopyAllBufferData and CopyBufferData                   *)
(* ------------------------------------------------------------------ *)

\* a guard that lets every program through
AlwaysValid == TRUE

\* a validity test that also asks a vertex program for its input layout
ValidWithLayout == shaderValid /\ (stage = "vertex" => inputLayout.set)

\* if (!shaderValid) return;
IsShaderValid == shaderValid

\* an upload that copies nothing
UpdateNothing(cb) == cb

\* an upload that also moves the buffer to slot 0
UpdateAndRebind(cb) ==
    [cb EXCEPT !.ConstantBuffer.contents = cb.LocalDataBuffer, !.BindIndex = 0]

\* deviceContext->UpdateSubresource(cb.ConstantBuffer, 0, 0, cb.LocalDataBuffer, 0, 0)
UpdateSubresource(cb) == [cb EXCEPT !.ConstantBuffer.contents = cb.LocalDataBuffer]

UpdateCall(cb) ==
    GpuCall("UpdateSubresource", 0, cb.ConstantBuffer.file, cb.ConstantBuffer.idx, "",
            cb.LocalDataBuffer)

\* a loop that visits the true constant buffers only
OnlyCBuffers == {i \in 1..constantBufferCount : constantBuffers[i].Type = "D3D11_CT_CBUFFER"}

\* the buffers the loop of CopyAllBufferData visits
AllBuffers == 1..constantBufferCount

\* index >= this->constantBufferCount
IndexOutOfRange(index) == index >= constantBufferCount

\* ISimpleShader::FindConstantBuffer: is the name in the table
FindConstantBuffer(name) == name \in DOMAIN cbTable

Unchanged(op) ==
    /\ call' = op
    /\ UNCHANGED <<disk, stage, object, context>>

Copied(op, which) ==
    /\ constantBuffers' = [i \in DOMAIN constantBuffers |->
                             IF i \in which THEN UpdateSubresource(constantBuffers[i])
                             ELSE constantBuffers[i]]
    /\ call' = [op EXCEPT !.gpu =
                  [k \in 1..Cardinality(which) |->
                     UpdateCall(constantBuffers[
                        CHOOSE i \in which : Cardinality({j \in which : j < i}) = k - 1])]]
    /\ UNCHANGED <<disk, stage, shaderValid, shader, constantBufferCount, cbPtr,
                   varTable, cbTable, samplerTable, textureTable, uavTable,
                   shaderResourceViews, samplerStates, threadsX, threadsY, threadsZ,
                   inputLayout, perInstanceCompatible, useStreamOut,
                   allowStreamOutRasterization, streamOutVertexSize, freedTwice, crashed,
                   context>>

CopyAllBufferData ==
    /\ ~crashed
    /\ LET op == [NoCall EXCEPT !.op = "CopyAllBufferData"] IN
       \/ /\ ~IsShaderValid
          /\ Unchanged(op)
       \/ /\ IsShaderValid
          /\ Copied(op, AllBuffers)

CopyBufferData(index) ==
    /\ ~crashed
    /\ LET op == [NoCall EXCEPT !.op = "CopyBufferData", !.index = index] IN
       \/ /\ ~IsShaderValid
          /\ Unchanged(op)
       \/ /\ IsShaderValid
          /\ IndexOutOfRange(index)
          /\ Unchanged(op)
       \/ /\ IsShaderValid
          /\ ~IndexOutOfRange(index)
          /\ Copied(op, {index + 1})

CopyBufferDataByName(bufferName) ==
    /\ ~crashed
    /\ LET op == [NoCall EXCEPT !.op = "CopyBufferDataByName", !.name = bufferName] IN
       \/ /\ ~IsShaderValid
          /\ Unchanged(op)
       \/ /\ IsShaderValid
          /\ ~FindConstantBuffer(bufferName)
          /\ Unchanged(op)
       \/ /\ IsShaderValid
          /\ FindConstantBuffer(bufferName)
          /\ Copied(op, {cbTable[bufferName] + 1})

(* ------------------------------------------------------------------ *)
(* ISimpleShader::SetShader and the SetShaderAndCBs of the stages        *)
(* ------------------------------------------------------------------ *)

SetShaderFn ==
    CASE stage = "vertex" -> "VSSetShader"
      [] stage = "pixel" -> "PSSetShader"
      [] stage = "geometry" -> "GSSetShader"
      [] stage = "compute" -> "CSSetShader"

\* a loop that skips no buffer
EveryBuffer == 1..constantBufferCount

\* the buffers SetShaderAndCBs does not skip
TrueConstantBuffers ==
    {i \in 1..constantBufferCount : constantBuffers[i].Type = "D3D11_CT_CBUFFER"}

BufferBinding(cb) ==
    [obj |-> "buffer", file |-> cb.ConstantBuffer.file, idx |-> cb.ConstantBuffer.idx,
     arg |-> 0]

\* the constant-buffer loop of SetShaderAndCBs, buffer i onwards
RECURSIVE SetConstantBuffers(_, _)
SetConstantBuffers(i, b) ==
    IF i > constantBufferCount THEN b
    ELSE SetConstantBuffers(i + 1,
            IF i \in TrueConstantBuffers
            THEN [b EXCEPT ![<<stage, "cb", constantBuffers[i].BindIndex>>] =
                            BufferBinding(constantBuffers[i])]
            ELSE b)

RECURSIVE SetConstantBufferCalls(_)
SetConstantBufferCalls(i) ==
    IF i > constantBufferCount THEN <<>>
    ELSE (IF i \in TrueConstantBuffers
          THEN <<GpuCall("SetConstantBuffers", constantBuffers[i].BindIndex,
                         constantBuffers[i].ConstantBuffer.file,
                         constantBuffers[i].ConstantBuffer.idx, "", <<>>)>>
          ELSE <<>>) \o SetConstantBufferCalls(i + 1)

SetShader ==
    /\ ~crashed
    /\ LET op == [NoCall EXCEPT !.op = "SetShader"] IN
       \/ /\ ~IsShaderValid
          /\ Unchanged(op)
       \/ /\ IsShaderValid
          /\ iaLayout' = IF stage = "vertex" THEN inputLayout ELSE iaLayout
          /\ activeShader' = [activeShader EXCEPT ![stage] = shader]
          /\ bound' = SetConstantBuffers(1, bound)
          /\ call' = [op EXCEPT !.gpu =
                        (IF stage = "vertex"
                         THEN <<[GpuCall("IASetInputLayout", 0, "", 0, "", <<>>)
                                   EXCEPT !.elems = inputLayout.elems]>>
                         ELSE <<>>)
                        \o <<GpuCall(SetShaderFn, 0, shader, 0, "", <<>>)>>
                        \o SetConstantBufferCalls(1)]
          /\ UNCHANGED <<disk, stage, object>>

(* ------------------------------------------------------------------ *)
(* SetShaderResourceView and SetSamplerState of the stages                *)
(* ------------------------------------------------------------------ *)

\* ISimpleShader::GetShaderResourceViewInfo(name): is the name in the table
HasShaderResourceView(name) == name \in DOMAIN textureTable

\* ISimpleShader::GetSamplerInfo(name): is the name in the table
HasSamplerState(name) == name \in DOMAIN samplerTable

\* a bind call that clears the slot
NullHandle(h) == [obj |-> "null", file |-> "", idx |-> 0, arg |-> 0]

\* the slot's contents after the view or sampler h has been set
HandleBinding(h) == [obj |-> h, file |-> "", idx |-> 0, arg |-> 0]

SetShaderResourceView(name, srv) ==
    /\ ~crashed
    /\ LET op == [NoCall EXCEPT !.op = "SetShaderResourceView", !.name = name,
                                !.handle = srv] IN
       \/ /\ ~HasShaderResourceView(name)
          /\ Unchanged(op)
       \/ /\ HasShaderResourceView(name)
          /\ LET srvInfo == shaderResourceViews[textureTable[name]] IN
             /\ bound' = [bound EXCEPT ![<<stage, "srv", srvInfo.BindIndex>>] =
                            HandleBinding(srv)]
             /\ call' = [op EXCEPT !.ret = TRUE, !.gpu =
                           <<GpuCall("SetShaderResources", srvInfo.BindIndex, "", 0, srv,
                                     <<>>)>>]
          /\ UNCHANGED <<disk, stage, object, activeShader, iaLayout>>

SetSamplerState(name, samplerState) ==
    /\ ~crashed
    /\ LET op == [NoCall EXCEPT !.op = "SetSamplerState", !.name = name,
                                !.handle = samplerState] IN
       \/ /\ ~HasSamplerState(name)
          /\ Unchanged(op)
       \/ /\ HasSamplerState(name)
          /\ LET sampInfo == samplerStates[samplerTable[name]] IN
             /\ bound' = [bound EXCEPT ![<<stage, "samp", sampInfo.BindIndex>>] =
                            HandleBinding(samplerState)]
             /\ call' = [op EXCEPT !.ret = TRUE, !.gpu =
                           <<GpuCall("SetSamplers", sampInfo.BindIndex, "", 0,
                                     samplerState, <<>>)>>]
          /\ UNCHANGED <<disk, stage, object, activeShader, iaLayout>>

(* ------------------------------------------------------------------ *)
(* A pixel program whose callers stage and upload                        *)
(* ------------------------------------------------------------------ *)

Next ==
    \/ \E f \in DOMAIN disk : LoadShaderFile(f) /\ UNCHANGED caller
    \/ \E name \in VariableNames, size \in 0..MaxSize : \E data \in [1..size -> Byte] :
          SetData(name, data, size) /\ UNCHANGED caller
    \/ CopyAllBufferData /\ UNCHANGED caller
    \/ \E index \in 0..MaxIndex : CopyBufferData(index) /\ UNCHANGED caller
    \/ \E name \in BufferNames : CopyBufferDataByName(name) /\ UNCHANGED caller

Spec == Init /\ [][Next]_vars

(* ------------------------------------------------------------------ *)
(* A pixel program whose callers stage, upload, activate and bind        *)
(* ------------------------------------------------------------------ *)

InitBind ==
    /\ disk = BindDisk
    /\ Constructed("pixel")
    /\ inputLayout = NoLayout
    /\ perInstanceCompatible = FALSE
    /\ NoStreamOut
    /\ caller = NoCaller

NextBind ==
    \/ \E f \in DOMAIN disk : LoadShaderFile(f) /\ UNCHANGED caller
    \/ \E name \in VariableNames, size \in 0..1 : \E data \in [1..size -> Byte] :
          SetData(name, data, size) /\ UNCHANGED caller
    \/ CopyAllBufferData /\ UNCHANGED caller
    \/ \E index \in 0..MaxIndex : CopyBufferData(index) /\ UNCHANGED caller
    \/ \E name \in BufferNames : CopyBufferDataByName(name) /\ UNCHANGED caller
    \/ SetShader /\ UNCHANGED caller
    \/ \E name \in ResourceNames, h \in Handles :
          SetShaderResourceView(name, h) /\ UNCHANGED caller
    \/ \E name \in SamplerNames, h \in Handles :
          SetSamplerState(name, h) /\ UNCHANGED caller

SpecBind == InitBind /\ [][NextBind]_vars

(* ------------------------------------------------------------------ *)
(* Properties of the staging calls                                      *)
(* ------------------------------------------------------------------ *)

StagingOf(buffers) == [b \in DOMAIN buffers |-> buffers[b].LocalDataBuffer]
GpuOf(buffers) == [b \in DOMAIN buffers |-> buffers[b].ConstantBuffer.contents]

\* the step is a SetData call on a name the variable table holds
SetDataOnKnown == call'.op = "SetData" /\ call'.name \in DOMAIN varTable

\* C1: on a valid program SetData with a known name and a size of at most the
\* variable's size (0 included) returns true and copies exactly size bytes to the
\* owning buffer's staging array at the variable's offset; every other staging
\* byte of that buffer and of every other buffer keeps its value.
C1_SetDataCopies ==
    [][(shaderValid /\ SetDataOnKnown /\ call'.size <= varTable[call'.name].Size)
       => LET v == varTable[call'.name] IN
          /\ call'.ret = TRUE
          /\ DOMAIN constantBuffers' = DOMAIN constantBuffers
          /\ \A b \in DOMAIN constantBuffers :
                /\ DOMAIN constantBuffers'[b].LocalDataBuffer = 1..constantBuffers[b].Size
                /\ \A i \in 1..constantBuffers[b].Size :
                      constantBuffers'[b].LocalDataBuffer[i] =
                         IF /\ b = v.ConstantBufferIndex + 1
                            /\ i > v.ByteOffset
                            /\ i <= v.ByteOffset + call'.size
                         THEN call'.data[i - v.ByteOffset]
                         ELSE constantBuffers[b].LocalDataBuffer[i]]_vars

\* a partial write has happened and has left the rest of the variable as it was
C1_Witness ==
    /\ call.op = "SetData" /\ call.ret
    /\ shaderValid
    /\ call.name \in DOMAIN varTable
    /\ varTable[call.name].Size = 2
    /\ call.size = 1
    /\ call.data = <<0>>
    /\ constantBuffers[varTable[call.name].ConstantBufferIndex + 1].LocalDataBuffer = <<0, 1>>

\* C2: SetData with a known name and a size above the variable's size returns
\* false and changes no staging byte of any buffer.
C2_SetDataTooLarge ==
    [][(SetDataOnKnown /\ call'.size > varTable[call'.name].Size)
       => /\ call'.ret = FALSE
          /\ StagingOf(constantBuffers') = StagingOf(constantBuffers)]_vars

\* an oversized write to a known variable has been refused
C2_Witness ==
    /\ call.op = "SetData" /\ ~call.ret
    /\ call.name \in DOMAIN varTable
    /\ call.size = varTable[call.name].Size + 1
    /\ \E i \in DOMAIN call.data : call.data[i] # 0

\* C3: SetData with a name the variable table does not hold returns false for
\* every size and changes no staging byte of any buffer.
C3_SetDataUnknown ==
    [][(call'.op = "SetData" /\ call'.name \notin DOMAIN varTable)
       => /\ call'.ret = FALSE
          /\ StagingOf(constantBuffers') = StagingOf(constantBuffers)]_vars

\* an unknown name has been refused on a loaded program, with size 0 as well
C3_Witness ==
    /\ call.op = "SetData" /\ ~call.ret
    /\ shaderValid
    /\ call.name \notin DOMAIN varTable
    /\ call.size = 0

(* ------------------------------------------------------------------ *)
(* Calling code that sets one variable twice and then uploads            *)
(* ------------------------------------------------------------------ *)

InitOverwrite ==
    /\ disk = PixelDisk
    /\ Constructed("pixel")
    /\ inputLayout = NoLayout
    /\ perInstanceCompatible = FALSE
    /\ NoStreamOut
    /\ caller = [pc |-> "start", name |-> "", first |-> <<>>, second |-> <<>>]

NextOverwrite ==
    \/ /\ caller.pc = "start"
       /\ \E f \in DOMAIN disk : LoadShaderFile(f)
       /\ caller' = [caller EXCEPT !.pc = IF call'.ret THEN "loaded" ELSE "start"]
    \/ /\ caller.pc = "loaded"
       /\ \E name \in VariableNames \cap DOMAIN varTable :
             \E data \in [1..varTable[name].Size -> Byte] :
                /\ SetData(name, data, varTable[name].Size)
                /\ caller' = [caller EXCEPT !.pc = "first", !.name = name, !.first = data]
    \/ /\ caller.pc = "first"
       /\ \E data \in [1..varTable[caller.name].Size -> Byte] \ {caller.first} :
             /\ SetData(caller.name, data, varTable[caller.name].Size)
             /\ caller' = [caller EXCEPT !.pc = "second", !.second = data]
    \/ /\ caller.pc = "second"
       /\ CopyAllBufferData
       /\ caller' = [caller EXCEPT !.pc = "uploaded"]
    \/ /\ caller.pc = "second"
       /\ CopyBufferData(varTable[caller.name].ConstantBufferIndex)
       /\ caller' = [caller EXCEPT !.pc = "uploaded"]
    \/ /\ caller.pc = "second"
       /\ CopyBufferDataByName(
             constantBuffers[varTable[caller.name].ConstantBufferIndex + 1].Name)
       /\ caller' = [caller EXCEPT !.pc = "uploaded"]

SpecOverwrite == InitOverwrite /\ [][NextOverwrite]_vars

\* C4: when one variable has been set twice with two different full-size values
\* and its buffer is uploaded next, the bytes the GPU buffer holds for the
\* variable are the second value, byte for byte.
C4_Overwrite ==
    caller.pc = "uploaded"
    => LET v == varTable[caller.name] IN
       \A k \in 1..v.Size :
          constantBuffers[v.ConstantBufferIndex + 1].ConstantBuffer.contents[v.ByteOffset + k]
             = caller.second[k]

\* the upload has happened after a second value that clears a byte the first set
C4_Witness ==
    /\ caller.pc = "uploaded"
    /\ caller.first = <<1, 1>>
    /\ caller.second = <<0, 1>>
    /\ call.gpu # <<>>

(* ------------------------------------------------------------------ *)
(* Properties of upload and load                                         *)
(* ------------------------------------------------------------------ *)

UploadOps == {"CopyAllBufferData", "CopyBufferData", "CopyBufferDataByName"}
BindOps == {"SetShader", "SetShaderResourceView", "SetSamplerState"}

\* the upload call of this step names buffer b (counted from 1)
Covers(b) ==
    CASE call'.op = "CopyAllBufferData" -> TRUE
      [] call'.op = "CopyBufferData" -> b = call'.index + 1
      [] call'.op = "CopyBufferDataByName" -> constantBuffers[b].Name = call'.name
      [] OTHER -> FALSE

\* C5: over any sequence of SetData, upload, activate, SetShaderResourceView and
\* SetSamplerState calls on a valid program, an upload leaves in each GPU buffer
\* it covers the staging bytes as they are at the call, and no other call, and no
\* upload of another buffer, changes a GPU buffer's contents.
C5_UploadOrdering ==
    [][(shaderValid /\ call'.op \in {"SetData"} \cup UploadOps \cup BindOps)
       => /\ DOMAIN constantBuffers' = DOMAIN constantBuffers
          /\ \A b \in DOMAIN constantBuffers :
                GpuOf(constantBuffers')[b] =
                   IF Covers(b) THEN StagingOf(constantBuffers)[b]
                   ELSE GpuOf(constantBuffers)[b]]_vars

\* one buffer has just been uploaded with a staged byte while the other buffer's
\* staged byte has not reached the GPU
C5_Witness ==
    /\ call.op = "CopyBufferData" /\ call.index = 1
    /\ shaderValid
    /\ GpuOf(constantBuffers)[2] = <<1>>
    /\ StagingOf(constantBuffers)[2] = <<1>>
    /\ StagingOf(constantBuffers)[1] = <<1>>
    /\ GpuOf(constantBuffers)[1] = <<0>>

\* C7 as stated: after any load that returns false the program is invalid, on a
\* first load and on a reload of a valid program alike.
C7_FailedLoadInvalid ==
    (call.op = "LoadShaderFile" /\ ~call.ret) => ~shaderValid

\* the fields of the program without the record of the last call
Program ==
    <<shaderValid, shader, constantBufferCount, constantBuffers, cbPtr, varTable, cbTable,
      samplerTable, textureTable, uavTable, shaderResourceViews, samplerStates,
      threadsX, threadsY, threadsZ, inputLayout, perInstanceCompatible,
      useStreamOut, allowStreamOutRasterization, streamOutVertexSize>>

\* C7: a load that returns false because shader-object creation failed, or that
\* fails on a program that was not valid, leaves the program invalid; a reload of
\* a valid program that returns false because the binary cannot be read leaves the
\* program valid and as it was; and on an invalid program upload and activate
\* issue no device call and change nothing.
C7_FailedLoad ==
    [][/\ (/\ call'.op = "LoadShaderFile" /\ ~call'.ret
           /\ (disk[call'.name].readable \/ ~shaderValid))
          => ~shaderValid'
       /\ (/\ call'.op = "LoadShaderFile" /\ ~call'.ret
           /\ ~disk[call'.name].readable /\ shaderValid)
          => (shaderValid' /\ Program' = Program /\ context' = context)
       /\ (~shaderValid /\ call'.op \in UploadOps \cup {"SetShader"})
          => (call'.gpu = <<>> /\ Program' = Program /\ context' = context)]_vars

\* activate has just been called on a program that a failed reload made invalid
C7_Witness ==
    /\ call.op = "SetShader"
    /\ ~shaderValid
    /\ shader = "psC.cso"
    /\ cbPtr = "freed"
    /\ call.gpu = <<>>
    /\ activeShader["pixel"] = "null"

\* the variables of the description, each with the buffer that declares it
DescVariables(d) ==
    {<<b, v>> \in (DOMAIN d.cbs) \X (1..MaxSize) : v \in DOMAIN d.cbs[b].Variables}

\* the tables and the buffer store hold what the description d reports
BuiltFrom(d) ==
    /\ constantBufferCount = Len(d.cbs)
    /\ cbPtr = "live"
    /\ DOMAIN constantBuffers = DOMAIN d.cbs
    /\ \A b \in DOMAIN d.cbs :
          /\ constantBuffers[b].Name = d.cbs[b].Name
          /\ constantBuffers[b].Type = d.cbs[b].Type
          /\ constantBuffers[b].Size = d.cbs[b].Size
          /\ constantBuffers[b].LocalDataBuffer = [i \in 1..d.cbs[b].Size |-> 0]
          /\ Len(constantBuffers[b].ConstantBuffer.contents) = d.cbs[b].Size
          /\ \E r \in DOMAIN d.res :
                /\ d.res[r].Name = d.cbs[b].Name
                /\ d.res[r].BindPoint = constantBuffers[b].BindIndex
          /\ cbTable[d.cbs[b].Name] = b - 1
    /\ DOMAIN cbTable = {d.cbs[b].Name : b \in DOMAIN d.cbs}
    /\ DOMAIN varTable = {d.cbs[p[1]].Variables[p[2]].Name : p \in DescVariables(d)}
    /\ \A p \in DescVariables(d) :
          LET v == d.cbs[p[1]].Variables[p[2]] IN
          varTable[v.Name] = [ConstantBufferIndex |-> p[1] - 1,
                              ByteOffset |-> v.StartOffset, Size |-> v.Size]
    /\ DOMAIN textureTable =
          {d.res[r].Name : r \in {q \in DOMAIN d.res : d.res[q].Type = "D3D_SIT_TEXTURE"}}
    /\ DOMAIN samplerTable =
          {d.res[r].Name : r \in {q \in DOMAIN d.res : d.res[q].Type = "D3D_SIT_SAMPLER"}}
    /\ \A r \in DOMAIN d.res :
          /\ d.res[r].Type = "D3D_SIT_TEXTURE"
             => LET e == shaderResourceViews[textureTable[d.res[r].Name]] IN
                e.live /\ e.BindIndex = d.res[r].BindPoint
          /\ d.res[r].Type = "D3D_SIT_SAMPLER"
             => LET e == samplerStates[samplerTable[d.res[r].Name]] IN
                e.live /\ e.BindIndex = d.res[r].BindPoint

\* C8: a load returns true exactly when the file was read and the device created
\* the shader object of this program's stage from it, and right after a load that
\* returned true the program is valid and its tables and buffer store are those
\* of the file's reflected description, with zeroed staging arrays.
C8_LoadBuilds ==
    call.op = "LoadShaderFile"
    => LET d == disk[call.name] IN
       /\ call.ret = (d.readable /\ d.stage = stage)
       /\ call.ret => (shaderValid /\ shader = call.name /\ BuiltFrom(d))

\* a reload has just rebuilt the tables for a binary with another layout of x
C8_Witness ==
    /\ call.op = "LoadShaderFile" /\ call.ret
    /\ call.name = "psB.cso"
    /\ Len(shaderResourceViews) > 0
    /\ varTable["x"].ByteOffset = 1

(* ------------------------------------------------------------------ *)
(* SimpleComputeShader: unordered access views and dispatch              *)
(* ------------------------------------------------------------------ *)

\* compute shader of 5 x 2 x 2 threads: a constant buffer and an output view
CsA == [readable |-> TRUE, stage |-> "compute",
        cbs |-> << [Name |-> "cb0", Type |-> "D3D11_CT_CBUFFER", Size |-> 1,
                    Variables |-> << [Name |-> "x", StartOffset |-> 0, Size |-> 1] >>] >>,
        res |-> << [Name |-> "cb0", Type |-> "D3D_SIT_CBUFFER", BindPoint |-> 0],
                   [Name |-> "out", Type |-> "D3D_SIT_UAV_RWTYPED", BindPoint |-> 1] >>,
        inputs |-> <<>>, outputs |-> <<>>, threads |-> <<5, 2, 2>>]

\* compute shader of 1024 x 1 x 1 threads: an append buffer
CsB == [readable |-> TRUE, stage |-> "compute", cbs |-> <<>>,
        res |-> << [Name |-> "out", Type |-> "D3D_SIT_UAV_APPEND_STRUCTURED",
                    BindPoint |-> 0] >>,
        inputs |-> <<>>, outputs |-> <<>>, threads |-> <<1024, 1, 1>>]

\* the files of the compute runs
ComputeDisk == [f \in {"missing.cso", "vs.cso", "csA.cso", "csB.cso"} |->
                  CASE f = "missing.cso" -> Missing
                    [] f = "vs.cso" -> VsPlain
                    [] f = "csA.cso" -> CsA
                    [] f = "csB.cso" -> CsB]

UavNames == {"out", "nope"}

\* thread counts callers ask for, and group counts they pass
Desired == {0, 3, 10, 16777217}
DesiredMinor == {0, 3}
GroupCounts == {0, 2}
Offsets == {0, 1}

\* GetUnorderedAccessViewIndex(name) # -1
HasUnorderedAccessView(name) == name \in DOMAIN uavTable

SetUnorderedAccessView(name, uav, appendConsumeOffset) ==
    /\ ~crashed
    /\ LET op == [NoCall EXCEPT !.op = "SetUnorderedAccessView", !.name = name,
                                !.handle = uav, !.index = appendConsumeOffset] IN
       \/ /\ ~HasUnorderedAccessView(name)
          /\ Unchanged(op)
       \/ /\ HasUnorderedAccessView(name)
          /\ LET bindIndex == uavTable[name] IN
             /\ bound' = [bound EXCEPT ![<<"compute", "uav", bindIndex>>] =
                            [HandleBinding(uav) EXCEPT !.arg = appendConsumeOffset]]
             /\ call' = [op EXCEPT !.ret = TRUE, !.gpu =
                           <<GpuCall("CSSetUnorderedAccessViews", bindIndex, "",
                                     appendConsumeOffset, uav, <<>>)>>]
          /\ UNCHANGED <<disk, stage, object, activeShader, iaLayout>>

\* a dispatch that passes the group counts in reverse order
DispatchReversed(x, y, z) == GpuCall("Dispatch", 0, "", 0, "", <<z, y, x>>)

\* deviceContext->Dispatch(x, y, z)
Dispatch(x, y, z) == GpuCall("Dispatch", 0, "", 0, "", <<x, y, z>>)

DispatchByGroups(groupsX, groupsY, groupsZ) ==
    /\ ~crashed
    /\ call' = [NoCall EXCEPT !.op = "DispatchByGroups",
                              !.data = <<groupsX, groupsY, groupsZ>>,
                              !.gpu = <<Dispatch(groupsX, groupsY, groupsZ)>>]
    /\ UNCHANGED <<disk, stage, object, context>>

RECURSIVE Pow2(_)
Pow2(k) == IF k <= 0 THEN 1 ELSE 2 * Pow2(k - 1)

RECURSIVE FloorLog2(_)
FloorLog2(n) == IF n < 2 THEN 0 ELSE 1 + FloorLog2(n \div 2)

\* significand bits of a float
MantissaBits == 24

\* the multiple of the spacing s nearest to num / den (num, den > 0), ties to
\* the even multiple
RoundToSpacing(num, den, s) ==
    LET whole == num \div den
        lo == (whole \div s) * s
        twice == 2 * ((whole - lo) * den + (num % den))
    IN IF twice < s * den THEN lo
       ELSE IF twice > s * den THEN lo + s
       ELSE IF (lo \div s) % 2 = 0 THEN lo ELSE lo + s

\* (float)n for an unsigned int n
UIntToFloat(n) ==
    IF n < Pow2(MantissaBits) THEN n
    ELSE RoundToSpacing(n, 1, Pow2(FloorLog2(n) - (MantissaBits - 1)))

\* ceil(a / b) for floats a, b of whole value, b > 0: the quotient is rounded to
\* a float before ceil sees it
CeilOfQuotient(a, b) ==
    LET whole == a \div b
        rest == a % b
    IN IF rest = 0 THEN whole
       ELSE IF whole = 0 THEN 1
       ELSE IF whole < Pow2(MantissaBits - 1)
       THEN (IF Pow2(MantissaBits - FloorLog2(whole)) <= b \div rest
             THEN whole ELSE whole + 1)
       ELSE RoundToSpacing(a, b, Pow2(FloorLog2(whole) - (MantissaBits - 1)))

\* what a build may leave in an unsigned int converted from an infinity or a NaN
\* (the largest value stands for the saturated patterns)
UndefinedUInt == {0, 2147483647}

\* (unsigned int)ceil((float)t / g) for unsigned t and g
GroupsFor(t, g) ==
    IF g = 0 THEN UndefinedUInt
    ELSE {CeilOfQuotient(UIntToFloat(t), UIntToFloat(g))}

\* the max macro
Max(a, b) == IF a > b THEN a ELSE b

DispatchByThreads(tX, tY, tZ) ==
    /\ ~crashed
    /\ \E gx \in GroupsFor(tX, threadsX), gy \in GroupsFor(tY, threadsY),
          gz \in GroupsFor(tZ, threadsZ) :
          call' = [NoCall EXCEPT !.op = "DispatchByThreads",
                                 !.data = <<tX, tY, tZ>>,
                                 !.gpu = <<Dispatch(Max(gx, 1), Max(gy, 1), Max(gz, 1))>>]
    /\ UNCHANGED <<disk, stage, object, context>>

InitCompute ==
    /\ disk = ComputeDisk
    /\ Constructed("compute")
    /\ inputLayout = NoLayout
    /\ perInstanceCompatible = FALSE
    /\ NoStreamOut
    /\ caller = NoCaller

NextCompute ==
    \/ \E f \in DOMAIN disk : LoadShaderFile(f) /\ UNCHANGED caller
    \/ SetShader /\ UNCHANGED caller
    \/ \E name \in UavNames, o \in Offsets :
          SetUnorderedAccessView(name, "h1", o) /\ UNCHANGED caller
    \/ \E x \in GroupCounts, y \in GroupCounts, z \in GroupCounts :
          DispatchByGroups(x, y, z) /\ UNCHANGED caller
    \/ \E x \in Desired, y \in DesiredMinor, z \in DesiredMinor :
          DispatchByThreads(x, y, z) /\ UNCHANGED caller

SpecCompute == InitCompute /\ [][NextCompute]_vars

\* C6 as stated: on an invalid program every operation other than load returns
\* false, issues no device call and changes nothing, dispatch included.
C6_InvalidInert ==
    [][(~shaderValid /\ call'.op \notin {"LoadShaderFile", "crash"})
       => (~call'.ret /\ call'.gpu = <<>> /\ Program' = Program /\ context' = context)]_vars

\* the quotient rounded up, in whole numbers
CeilDiv(t, g) == (t + g - 1) \div g

\* C9 as stated: DispatchByThreads issues one dispatch whose count on each axis
\* is max(ceil(t / g), 1) for the reflected group size g of the axis, and at
\* least 1 on every axis whatever t and g are.
C9_GroupCounts ==
    call.op = "DispatchByThreads"
    => /\ Len(call.gpu) = 1
       /\ call.gpu[1].fn = "Dispatch"
       /\ \A i \in 1..3 :
             LET t == call.data[i]
                 g == <<threadsX, threadsY, threadsZ>>[i]
                 n == call.gpu[1].data[i]
             IN /\ n >= 1
                /\ g > 0 => n = (IF CeilDiv(t, g) > 1 THEN CeilDiv(t, g) ELSE 1)

(* ------------------------------------------------------------------ *)
(* A vertex program: constructors, loads and activation                  *)
(* ------------------------------------------------------------------ *)

MaxInputs == 2

NamePosition == <<"P", "O", "S", "I", "T", "I", "O", "N">>
NameShort == <<"U", "V">>
NameWorld == <<"W", "O", "R", "L", "D">> \o PerInstanceStr
NameMiddle == PerInstanceStr \o <<"_", "B">>
NameNearMiss == <<"X">> \o SubSeq(PerInstanceStr, 1, Len(PerInstanceStr) - 1)
SemanticNames ==
    {NamePosition, NameShort, PerInstanceStr, NameWorld, NameMiddle, NameNearMiss}

\* entries an input signature can hold
Parameters ==
    [SemanticName : SemanticNames, SemanticIndex : {0}, Mask : {7},
     ComponentType : {"D3D_REGISTER_COMPONENT_FLOAT32", "D3D_REGISTER_COMPONENT_UNKNOWN"}]

Signatures == UNION {[1..n -> Parameters] : n \in 0..MaxInputs}

\* a vertex shader with the given input signature and one constant buffer
Vs(sig) ==
    [readable |-> TRUE, stage |-> "vertex",
     cbs |-> << [Name |-> "cb0", Type |-> "D3D11_CT_CBUFFER", Size |-> 1,
                 Variables |-> << [Name |-> "x", StartOffset |-> 0, Size |-> 1] >>] >>,
     res |-> << [Name |-> "cb0", Type |-> "D3D_SIT_CBUFFER", BindPoint |-> 0] >>,
     inputs |-> sig, outputs |-> <<>>, threads |-> NoThreads]

\* an instanced vertex shader
VsInstanced ==
    Vs(<< [SemanticName |-> NamePosition, SemanticIndex |-> 0, Mask |-> 7,
           ComponentType |-> "D3D_REGISTER_COMPONENT_FLOAT32"],
          [SemanticName |-> NameWorld, SemanticIndex |-> 0, Mask |-> 7,
           ComponentType |-> "D3D_REGISTER_COMPONENT_FLOAT32"] >>)

\* the files of the vertex runs
VertexDisk(sig) == [f \in {"missing.cso", "ps.cso", "vs.cso", "vsInst.cso"} |->
                      CASE f = "missing.cso" -> Missing
                        [] f = "ps.cso" -> PsB
                        [] f = "vs.cso" -> Vs(sig)
                        [] f = "vsInst.cso" -> VsInstanced]

\* the layout object a caller hands to the second constructor
CustomLayout == [set |-> TRUE, custom |-> TRUE, elems |-> <<>>]

InitVertex ==
    /\ \E sig \in Signatures : disk = VertexDisk(sig)
    /\ Constructed("vertex")
    /\ \/ inputLayout = NoLayout /\ perInstanceCompatible = FALSE
       \/ inputLayout = CustomLayout /\ perInstanceCompatible \in BOOLEAN
    /\ NoStreamOut
    /\ caller = NoCaller

NextVertex ==
    \/ \E f \in DOMAIN disk : LoadShaderFile(f) /\ UNCHANGED caller
    \/ SetShader /\ UNCHANGED caller

SpecVertex == InitVertex /\ [][NextVertex]_vars

\* the name is some prefix followed by the marker
EndsWithMarker(sem) ==
    \E k \in 0..Len(sem) : sem = SubSeq(sem, 1, k) \o PerInstanceStr

\* C10: the descriptor a load hands to CreateInputLayout has one element per
\* input-signature entry, in signature order; an entry whose semantic name ends
\* with "_PER_INSTANCE" (or is that marker) is on input slot 1 with per-instance
\* class and step rate 1, and every other entry is on input slot 0 with
\* per-vertex class and step rate 0.
C10_PerInstanceSlots ==
    \A c \in DOMAIN call.gpu :
       call.gpu[c].fn = "CreateInputLayout"
       => LET sig == disk[call.name].inputs
              elems == call.gpu[c].elems
          IN /\ Len(elems) = Len(sig)
             /\ \A i \in DOMAIN sig :
                   /\ elems[i].SemanticName = sig[i].SemanticName
                   /\ IF EndsWithMarker(sig[i].SemanticName)
                      THEN /\ elems[i].InputSlot = 1
                           /\ elems[i].InputSlotClass = "D3D11_INPUT_PER_INSTANCE_DATA"
                           /\ elems[i].InstanceDataStepRate = 1
                      ELSE /\ elems[i].InputSlot = 0
                           /\ elems[i].InputSlotClass = "D3D11_INPUT_PER_VERTEX_DATA"
                           /\ elems[i].InstanceDataStepRate = 0

\* a layout has been synthesized from a signature that holds the bare marker and
\* a name with the marker in the middle
C10_Witness ==
    /\ call.op = "LoadShaderFile" /\ call.ret /\ call.name = "vs.cso"
    /\ Len(disk["vs.cso"].inputs) = 2
    /\ disk["vs.cso"].inputs[1].SemanticName = PerInstanceStr
    /\ disk["vs.cso"].inputs[2].SemanticName = NameMiddle
    /\ inputLayout.set /\ ~inputLayout.custom
    /\ inputLayout.elems[1].InputSlot = 1
    /\ inputLayout.elems[2].InputSlot = 0

(* ------------------------------------------------------------------ *)
(* A geometry program, with and without stream output                    *)
(* ------------------------------------------------------------------ *)

MaxOutputs == 2

\* component masks of output parameters; the last has a bit above the low four
OutMasks == {0, 5, 15, 19}

\* entries an output signature can hold
OutputParameters ==
    [SemanticName : {"SV_POSITION", "COLOR"}, SemanticIndex : {0}, Stream : {0},
     Mask : OutMasks]

OutputSignatures == UNION {[1..n -> OutputParameters] : n \in 0..MaxOutputs}

\* a geometry shader with the given output signature and one constant buffer
Gs(sig) ==
    [readable |-> TRUE, stage |-> "geometry",
     cbs |-> << [Name |-> "cb0", Type |-> "D3D11_CT_CBUFFER", Size |-> 1,
                 Variables |-> << [Name |-> "x", StartOffset |-> 0, Size |-> 1] >>] >>,
     res |-> << [Name |-> "cb0", Type |-> "D3D_SIT_CBUFFER", BindPoint |-> 0] >>,
     inputs |-> <<>>, outputs |-> sig, threads |-> NoThreads]

\* a pixel shader that writes one four-component target
PsOut ==
    [readable |-> TRUE, stage |-> "pixel", cbs |-> <<>>, res |-> <<>>, inputs |-> <<>>,
     outputs |-> << [SemanticName |-> "SV_TARGET", SemanticIndex |-> 0, Stream |-> 0,
                     Mask |-> 15] >>,
     threads |-> NoThreads]

\* the files of the geometry runs
GeometryDisk(sig) == [f \in {"missing.cso", "ps.cso", "gs.cso"} |->
                        CASE f = "missing.cso" -> Missing
                          [] f = "ps.cso" -> PsOut
                          [] f = "gs.cso" -> Gs(sig)]

\* vertex counts callers pass (an int): none, a few, one past 2^28, a negative one
VertexCounts == {0, 3, 268435457, -1}

Half == 65536

\* an unsigned int as its high and low 16 bits
UIntOfInt(v) == <<(IF v < 0 THEN Half ELSE 0) + (v \div Half), v % Half>>

\* a product that keeps every bit, as a high part without bound and the low 16 bits
ProductUnbounded(a, v) ==
    <<a * (v \div Half) + ((a * (v % Half)) \div Half), (a * (v % Half)) % Half>>

\* streamOutVertexSize * vertexCount in unsigned int arithmetic, as high and low
\* 16 bits (a below 2^15)
ProductUInt(a, v) ==
    LET u == UIntOfInt(v) IN
    <<(a * u[1] + ((a * u[2]) \div Half)) % Half, (a * u[2]) % Half>>

\* what CreateBuffer can answer for the byte width: never S_OK for no bytes
CreateBufferResults(width) == IF width = <<0, 0>> THEN {FALSE} ELSE BOOLEAN

CreateCompatibleStreamOutBuffer(vertexCount) ==
    /\ ~crashed
    /\ stage = "geometry"
    /\ LET op == [NoCall EXCEPT !.op = "CreateCompatibleStreamOutBuffer",
                                !.index = vertexCount]
           width == ProductUInt(streamOutVertexSize, vertexCount)
       IN IF ~useStreamOut \/ ~shaderValid \/ streamOutVertexSize = 0
          THEN call' = op
          ELSE \E hr \in CreateBufferResults(width) :
                  call' = [op EXCEPT !.ret = hr, !.gpu =
                             <<GpuCall("CreateBuffer", 0, "", 0,
                                       IF hr THEN "S_OK" ELSE "E_FAIL", width)>>]
    /\ UNCHANGED <<disk, stage, object, context>>

InitGeometry ==
    /\ \E sig \in OutputSignatures : disk = GeometryDisk(sig)
    /\ Constructed("geometry")
    /\ inputLayout = NoLayout
    /\ perInstanceCompatible = FALSE
    /\ useStreamOut \in BOOLEAN
    /\ allowStreamOutRasterization \in BOOLEAN
    /\ streamOutVertexSize = 0
    /\ caller = NoCaller

NextGeometry ==
    \/ \E f \in DOMAIN disk : LoadShaderFile(f) /\ UNCHANGED caller
    \/ SetShader /\ UNCHANGED caller
    \/ \E n \in VertexCounts : CreateCompatibleStreamOutBuffer(n) /\ UNCHANGED caller

SpecGeometry == InitGeometry /\ [][NextGeometry]_vars

\* how many of the low four bits of the mask are set
LowBitsSet(mask) == Cardinality({w \in {1, 2, 4, 8} : (mask \div w) % 2 = 1})

RECURSIVE SumLowBitsSet(_, _)
SumLowBitsSet(outputs, i) ==
    IF i > Len(outputs) THEN 0
    ELSE LowBitsSet(outputs[i].Mask) + SumLowBitsSet(outputs, i + 1)

\* C11: when a geometry program with stream output enabled has asked the device
\* to create its shader object from a file, the declaration it passed has one
\* entry per output parameter of the file in signature order, each with a
\* component count in 0..4 equal to the number of set bits among the low four of
\* the parameter's mask, and the vertex stride is 4 bytes times the sum of those
\* counts.
C11_StreamOutStride ==
    (stage = "geometry" /\ useStreamOut /\ call.op = "LoadShaderFile" /\ call.gpu # <<>>)
    => LET out == disk[call.name].outputs
           decl == call.gpu[1].elems
       IN /\ call.gpu[1].fn = "CreateGeometryShaderWithStreamOutput"
          /\ Len(decl) = Len(out)
          /\ \A i \in DOMAIN out :
                /\ decl[i].SemanticName = out[i].SemanticName
                /\ decl[i].SemanticIndex = out[i].SemanticIndex
                /\ decl[i].ComponentCount = LowBitsSet(out[i].Mask)
                /\ decl[i].ComponentCount \in 0..4
          /\ streamOutVertexSize = 4 * SumLowBitsSet(out, 1)

\* a stream-output program has been built from outputs with masks 5 and 19
C11_Witness ==
    /\ stage = "geometry" /\ useStreamOut /\ shaderValid
    /\ call.op = "LoadShaderFile" /\ call.ret /\ call.name = "gs.cso"
    /\ Len(disk["gs.cso"].outputs) = 2
    /\ disk["gs.cso"].outputs[1].Mask = 5
    /\ disk["gs.cso"].outputs[2].Mask = 19
    /\ streamOutVertexSize = 16

(* ------------------------------------------------------------------ *)
(* Lookups by name                                                      *)
(* ------------------------------------------------------------------ *)

\* compute shader with an entry of every kind: a constant buffer, a structured
\* buffer (reflected as a resource and as a buffer holding "$Element"), a texture,
\* a sampler and a read-write texture
CsAll == [readable |-> TRUE, stage |-> "compute",
          cbs |-> << [Name |-> "cb0", Type |-> "D3D11_CT_CBUFFER", Size |-> 1,
                      Variables |-> << [Name |-> "x", StartOffset |-> 0, Size |-> 1] >>],
                     [Name |-> "sbA", Type |-> "D3D11_CT_RESOURCE_BIND_INFO", Size |-> 1,
                      Variables |-> << [Name |-> "$Element", StartOffset |-> 0,
                                        Size |-> 1] >>] >>,
          res |-> << [Name |-> "cb0", Type |-> "D3D_SIT_CBUFFER", BindPoint |-> 0],
                     [Name |-> "sbA", Type |-> "D3D_SIT_STRUCTURED", BindPoint |-> 0],
                     [Name |-> "tex", Type |-> "D3D_SIT_TEXTURE", BindPoint |-> 1],
                     [Name |-> "smp", Type |-> "D3D_SIT_SAMPLER", BindPoint |-> 0],
                     [Name |-> "out", Type |-> "D3D_SIT_UAV_RWTYPED", BindPoint |-> 0] >>,
          inputs |-> <<>>, outputs |-> <<>>, threads |-> <<1, 1, 1>>]

\* compute shader reading two structured buffers: each is reflected as a buffer
\* whose only variable is "$Element"
CsDup == [readable |-> TRUE, stage |-> "compute",
          cbs |-> << [Name |-> "sbA", Type |-> "D3D11_CT_RESOURCE_BIND_INFO", Size |-> 1,
                      Variables |-> << [Name |-> "$Element", StartOffset |-> 0,
                                        Size |-> 1] >>],
                     [Name |-> "sbB", Type |-> "D3D11_CT_RESOURCE_BIND_INFO", Size |-> 2,
                      Variables |-> << [Name |-> "$Element", StartOffset |-> 0,
                                        Size |-> 2] >>] >>,
          res |-> << [Name |-> "sbA", Type |-> "D3D_SIT_STRUCTURED", BindPoint |-> 0],
                     [Name |-> "sbB", Type |-> "D3D_SIT_STRUCTURED", BindPoint |-> 1] >>,
          inputs |-> <<>>, outputs |-> <<>>, threads |-> <<1, 1, 1>>]

\* the files of the lookup runs
LookupDisk == [f \in {"missing.cso", "vs.cso", "csAll.cso", "csDup.cso"} |->
                 CASE f = "missing.cso" -> Missing
                   [] f = "vs.cso" -> VsPlain
                   [] f = "csAll.cso" -> CsAll
                   [] f = "csDup.cso" -> CsDup]

\* names handed to the lookups
LookupNames == {"x", "$Element", "cb0", "sbA", "sbB", "tex", "smp", "out", "nope"}

\* a lookup hands back a result and touches nothing
Probe(op, name, found, index, data) ==
    /\ ~crashed
    /\ call' = [NoCall EXCEPT !.op = op, !.name = name, !.ret = found,
                              !.index = index, !.data = data]
    /\ UNCHANGED <<disk, stage, object, context>>

\* a lookup of variables that searches the table of buffers
VariableDescOfBuffers(name) ==
    IF name \in DOMAIN cbTable
    THEN <<cbTable[name], 0, constantBuffers[cbTable[name] + 1].Size>>
    ELSE <<>>

\* the SimpleShaderVariable FindVariable(name, -1) points to
VariableDesc(name) ==
    LET var == FindVariable(name) IN
    IF var.found THEN <<var.var.ConstantBufferIndex, var.var.ByteOffset, var.var.Size>>
    ELSE <<>>

\* the SimpleSRV the table points to
SrvDesc(name) ==
    IF HasShaderResourceView(name)
    THEN LET srv == shaderResourceViews[textureTable[name]] IN <<srv.BindIndex, srv.Index>>
    ELSE <<>>

\* the SimpleSampler the table points to
SamplerDesc(name) ==
    IF HasSamplerState(name)
    THEN LET s == samplerStates[samplerTable[name]] IN <<s.BindIndex, s.Index>>
    ELSE <<>>

\* the SimpleConstantBuffer FindConstantBuffer points to
BufferDesc(name) ==
    IF FindConstantBuffer(name)
    THEN LET cb == constantBuffers[cbTable[name] + 1] IN <<cbTable[name], cb.BindIndex, cb.Size>>
    ELSE <<>>

HasVariable(name) == Probe("HasVariable", name, VariableDesc(name) # <<>>, 0, <<>>)

GetVariableInfo(name) ==
    Probe("GetVariableInfo", name, VariableDesc(name) # <<>>, 0, VariableDesc(name))

HasShaderResourceViewCall(name) ==
    Probe("HasShaderResourceView", name, SrvDesc(name) # <<>>, 0, <<>>)

GetShaderResourceViewInfo(name) ==
    Probe("GetShaderResourceViewInfo", name, SrvDesc(name) # <<>>, 0, SrvDesc(name))

HasSamplerStateCall(name) ==
    Probe("HasSamplerState", name, SamplerDesc(name) # <<>>, 0, <<>>)

GetSamplerInfo(name) ==
    Probe("GetSamplerInfo", name, SamplerDesc(name) # <<>>, 0, SamplerDesc(name))

GetBufferInfo(name) ==
    Probe("GetBufferInfo", name, BufferDesc(name) # <<>>, 0, BufferDesc(name))

\* returns the bind index, or -1
GetUnorderedAccessViewIndex(name) ==
    Probe("GetUnorderedAccessViewIndex", name, HasUnorderedAccessView(name),
          IF HasUnorderedAccessView(name) THEN uavTable[name] ELSE -1, <<>>)

InitLookup ==
    /\ disk = LookupDisk
    /\ Constructed("compute")
    /\ inputLayout = NoLayout
    /\ perInstanceCompatible = FALSE
    /\ NoStreamOut
    /\ caller = NoCaller

NextLookup ==
    \/ \E f \in DOMAIN LookupDisk : LoadShaderFile(f) /\ UNCHANGED caller
    \/ \E n \in LookupNames : HasVariable(n) /\ UNCHANGED caller
    \/ \E n \in LookupNames : GetVariableInfo(n) /\ UNCHANGED caller
    \/ \E n \in LookupNames : HasShaderResourceViewCall(n) /\ UNCHANGED caller
    \/ \E n \in LookupNames : GetShaderResourceViewInfo(n) /\ UNCHANGED caller
    \/ \E n \in LookupNames : HasSamplerStateCall(n) /\ UNCHANGED caller
    \/ \E n \in LookupNames : GetSamplerInfo(n) /\ UNCHANGED caller
    \/ \E n \in LookupNames : GetBufferInfo(n) /\ UNCHANGED caller
    \/ \E n \in LookupNames : GetUnorderedAccessViewIndex(n) /\ UNCHANGED caller

SpecLookup == InitLookup /\ [][NextLookup]_vars

\* the table each lookup searches
VariableProbes == {"HasVariable", "GetVariableInfo"}
ResourceProbes == {"HasShaderResourceView", "GetShaderResourceViewInfo"}
SamplerProbes == {"HasSamplerState", "GetSamplerInfo"}
BufferProbes == {"GetBufferInfo"}
UavProbes == {"GetUnorderedAccessViewIndex"}
ProbeOps == VariableProbes \cup ResourceProbes \cup SamplerProbes \cup BufferProbes
            \cup UavProbes

\* the names of each kind that reflection reports for binary d
ReflectedNames(d, ops) ==
    IF ops = VariableProbes
    THEN UNION {{d.cbs[b].Variables[v].Name : v \in DOMAIN d.cbs[b].Variables} :
                  b \in DOMAIN d.cbs}
    ELSE IF ops = BufferProbes THEN {d.cbs[b].Name : b \in DOMAIN d.cbs}
    ELSE LET types == IF ops = ResourceProbes THEN TextureTypes
                      ELSE IF ops = SamplerProbes THEN SamplerTypes ELSE UavTypes
         IN {d.res[r].Name : r \in {q \in DOMAIN d.res : d.res[q].Type \in types}}

ProbeKinds == {VariableProbes, ResourceProbes, SamplerProbes, BufferProbes, UavProbes}

\* the binary whose reflection the tables hold
Loaded == IF shaderValid THEN disk[shader] ELSE Missing

\* the kinds under which the loaded binary reports the name
KindsOf(name) == {k \in ProbeKinds : name \in ReflectedNames(Loaded, k)}

\* the lookup that has just returned says not-found
NotFound ==
    /\ ~call'.ret
    /\ call'.data = <<>>
    /\ call'.op \in UavProbes => call'.index = -1

\* C12 as stated: a lookup changes nothing; a name that is in none of the tables
\* is not found whichever table is searched; and a name that is in some table is
\* not found by a lookup in any other table.
C12_NameInOneTableOnly ==
    [][call'.op \in ProbeOps =>
         LET asked == CHOOSE k \in ProbeKinds : call'.op \in k IN
         /\ UNCHANGED <<disk, stage, object, context>>
         /\ KindsOf(call'.name) = {} => NotFound
         /\ KindsOf(call'.name) \ {asked} # {} => NotFound]_vars

\* C12, amended: a lookup changes no table, no staging byte and no binding; it
\* finds the name exactly when the loaded binary reports the name under the kind
\* searched, so a name in none of the tables is not found anywhere and a name
\* reported under one kind only is not found in each of the other tables.
C12_LookupByKind ==
    [][call'.op \in ProbeOps =>
         LET asked == CHOOSE k \in ProbeKinds : call'.op \in k IN
         /\ UNCHANGED <<disk, stage, object, context>>
         /\ asked \notin KindsOf(call'.name) => NotFound
         /\ asked \in KindsOf(call'.name) => call'.ret]_vars

\* a texture's name has been looked up among the samplers of a loaded program
C12_Witness ==
    /\ shaderValid
    /\ call.op = "GetSamplerInfo"
    /\ call.name = "tex"
    /\ "tex" \in DOMAIN textureTable
    /\ ~call.ret

\* C13: on a loaded program, GetVariableInfo(name) hands back, for every variable
\* of every reflected buffer that bears the name, that variable's buffer position,
\* start offset and size.
C13_VariableInfo ==
    (shaderValid /\ call.op = "GetVariableInfo")
    => \A b \in DOMAIN Loaded.cbs : \A v \in DOMAIN Loaded.cbs[b].Variables :
          LET var == Loaded.cbs[b].Variables[v] IN
          var.Name = call.name
          => /\ call.ret
             /\ call.data = <<b - 1, var.StartOffset, var.Size>>

\* the bind slot reflection reports for the true constant buffer named name
ReflectedCBufferSlots(d, name) ==
    {d.res[r].BindPoint : r \in {q \in DOMAIN d.res :
                                   d.res[q].Name = name /\ d.res[q].Type = "D3D_SIT_CBUFFER"}}

\* the positions (from 0) of the true constant buffers of d that reflection puts at the slot
ReflectedAtSlot(d, slot) ==
    {b - 1 : b \in {c \in DOMAIN d.cbs : /\ d.cbs[c].Type = "D3D11_CT_CBUFFER"
                                          /\ slot \in ReflectedCBufferSlots(d, d.cbs[c].Name)}}

\* C14: SetShader on a valid program sets its shader object on its own stage and
\* binds each true constant buffer at its reflected slot of that stage; buffers of
\* other kinds are not bound, every other slot of the stage and every slot of the
\* other stages keeps its binding, and the object is not changed. On an invalid
\* program nothing changes.
C14_Activate ==
    [][call'.op = "SetShader" =>
         IF shaderValid
         THEN /\ activeShader' = [activeShader EXCEPT ![stage] = shader]
              /\ \A key \in DOMAIN bound :
                    LET here == IF key[1] = stage /\ key[2] = "cb"
                                THEN ReflectedAtSlot(disk[shader], key[3]) ELSE {}
                    IN IF here = {} THEN bound'[key] = bound[key]
                       ELSE /\ bound'[key].obj = "buffer"
                            /\ bound'[key].file = shader
                            /\ bound'[key].idx \in here
              /\ UNCHANGED <<disk, stage, object>>
         ELSE UNCHANGED <<disk, stage, object, context>>]_vars

\* a program with a texture buffer and a constant buffer has been activated
C14_Witness ==
    /\ call.op = "SetShader"
    /\ shaderValid
    /\ activeShader["pixel"] = "psC.cso"
    /\ \E i \in 1..constantBufferCount : constantBuffers[i].Type = "D3D11_CT_TBUFFER"
    /\ bound[<<"pixel", "cb", 2>>].obj = "buffer"
    /\ bound[<<"pixel", "cb", 0>>].obj = "null"

\* the buffers (counted from 1) of the loaded binary that the upload of this step names
Pushed ==
    LET d == disk[shader] IN
    CASE call'.op = "CopyAllBufferData" -> DOMAIN d.cbs
      [] call'.op = "CopyBufferData" -> {call'.index + 1} \cap DOMAIN d.cbs
      [] call'.op = "CopyBufferDataByName" ->
            {b \in DOMAIN d.cbs : d.cbs[b].Name = call'.name}

\* C15: on a valid program CopyAllBufferData pushes the staging bytes of every
\* buffer of every kind, CopyBufferData(index) those of the buffer at the index
\* and nothing when the index is not below the buffer count, CopyBufferData(name)
\* those of the buffer so named and nothing when there is none; one device call is
\* made per buffer pushed, and no staging byte, no other GPU buffer and nothing
\* else of the object or the device context changes. On an invalid program an
\* upload changes nothing.
C15_Uploads ==
    [][call'.op \in UploadOps
       => IF ~shaderValid THEN UNCHANGED <<disk, stage, object, context>>
          ELSE
          /\ Len(call'.gpu) = Cardinality(Pushed)
          /\ {call'.gpu[k].idx + 1 : k \in DOMAIN call'.gpu} = Pushed
          /\ \A k \in DOMAIN call'.gpu :
                /\ call'.gpu[k].fn = "UpdateSubresource"
                /\ call'.gpu[k].data = StagingOf(constantBuffers)[call'.gpu[k].idx + 1]
          /\ StagingOf(constantBuffers') = StagingOf(constantBuffers)
          /\ \A b \in DOMAIN constantBuffers :
                constantBuffers'[b] =
                   IF b \in Pushed
                   THEN [constantBuffers[b] EXCEPT
                           !.ConstantBuffer.contents = constantBuffers[b].LocalDataBuffer]
                   ELSE constantBuffers[b]
          /\ Pushed = {} => UNCHANGED <<disk, stage, object, context>>
          /\ UNCHANGED <<varTable, cbTable, constantBufferCount, shaderValid, context>>]_vars

\* CopyAllBufferData has pushed a staged byte of a texture buffer
C15_Witness ==
    /\ call.op = "CopyAllBufferData"
    /\ shaderValid
    /\ Len(call.gpu) = 2
    /\ constantBuffers[2].Type = "D3D11_CT_TBUFFER"
    /\ StagingOf(constantBuffers)[2] = <<1>>
    /\ GpuOf(constantBuffers)[2] = <<1>>

(* ------------------------------------------------------------------ *)
(* Typed setters on a program with a float3 and a matrix                 *)
(* ------------------------------------------------------------------ *)

\* pixel shader: cbuffer { float3 v; float4x4 m; }
PsTyped == [readable |-> TRUE, stage |-> "pixel",
            cbs |-> << [Name |-> "cb0", Type |-> "D3D11_CT_CBUFFER", Size |-> 80,
                        Variables |-> << [Name |-> "v", StartOffset |-> 0, Size |-> 12],
                                         [Name |-> "m", StartOffset |-> 16, Size |-> 64] >>] >>,
            res |-> << [Name |-> "cb0", Type |-> "D3D_SIT_CBUFFER", BindPoint |-> 0] >>,
            inputs |-> <<>>, outputs |-> <<>>, threads |-> NoThreads]

TypedDisk == [f \in {"missing.cso", "psTyped.cso"} |->
                IF f = "missing.cso" THEN Missing ELSE PsTyped]

TypedNames == {"v", "m", "nope"}

\* the argument of a typed setter: size bytes that repeat one byte
Filled(size) == {[i \in 1..size |-> v] : v \in {0, 1}}

InitTyped ==
    /\ disk = TypedDisk
    /\ Constructed("pixel")
    /\ inputLayout = NoLayout
    /\ perInstanceCompatible = FALSE
    /\ NoStreamOut
    /\ caller = NoCaller

NextTyped ==
    \/ \E f \in DOMAIN TypedDisk : LoadShaderFile(f) /\ UNCHANGED caller
    \/ \E n \in TypedNames : \E data \in Filled(SizeofInt) :
          SetInt(n, data) /\ UNCHANGED caller
    \/ \E n \in TypedNames : \E data \in Filled(SizeofFloat) :
          SetFloat(n, data) /\ UNCHANGED caller
    \/ \E n \in TypedNames : \E data \in Filled(SizeofFloat * 2) :
          SetFloat2(n, data) /\ UNCHANGED caller
    \/ \E n \in TypedNames : \E data \in Filled(SizeofFloat * 3) :
          SetFloat3(n, data) /\ UNCHANGED caller
    \/ \E n \in TypedNames : \E data \in Filled(SizeofFloat * 4) :
          SetFloat4(n, data) /\ UNCHANGED caller
    \/ \E n \in TypedNames : \E data \in Filled(SizeofFloat * 16) :
          SetMatrix4x4(n, data) /\ UNCHANGED caller

SpecTyped == InitTyped /\ [][NextTyped]_vars

TypedOps == {"SetInt", "SetFloat", "SetFloat2", "SetFloat3", "SetFloat4", "SetMatrix4x4"}

\* the byte width each typed setter is said to write
NaturalWidth(op) ==
    CASE op = "SetInt" -> 4
      [] op = "SetFloat" -> 4
      [] op = "SetFloat2" -> 8
      [] op = "SetFloat3" -> 12
      [] op = "SetFloat4" -> 16
      [] op = "SetMatrix4x4" -> 64

\* the variables named name that reflection reports for the loaded binary, each
\* with its buffer (counted from 1)
ReflectedVariables(name) ==
    {[b |-> b, var |-> Loaded.cbs[b].Variables[v]] :
        <<b, v>> \in {p \in (DOMAIN Loaded.cbs) \X (1..2) :
                        /\ p[2] \in DOMAIN Loaded.cbs[p[1]].Variables
                        /\ Loaded.cbs[p[1]].Variables[p[2]].Name = name}}

\* C17: a typed setter passes exactly its type's width of bytes; on a variable at
\* least that wide it returns true and replaces the first width bytes of the
\* variable in staging by the argument, every other staging byte and every GPU
\* byte staying as it was; on a narrower variable or an unknown name it returns
\* false and changes nothing.
C17_TypedSetters ==
    [][call'.op \in TypedOps =>
         LET width == NaturalWidth(call'.op)
             hits == {h \in ReflectedVariables(call'.name) : h.var.Size >= width}
         IN /\ call'.size = width
            /\ Len(call'.data) = width
            /\ IF hits = {}
               THEN /\ ~call'.ret
                    /\ UNCHANGED <<disk, stage, object, context>>
               ELSE /\ call'.ret
                    /\ \E h \in hits :
                          StagingOf(constantBuffers') =
                             [b \in DOMAIN constantBuffers |->
                                [i \in 1..constantBuffers[b].Size |->
                                   IF /\ b = h.b
                                      /\ i > h.var.StartOffset
                                      /\ i <= h.var.StartOffset + width
                                   THEN call'.data[i - h.var.StartOffset]
                                   ELSE constantBuffers[b].LocalDataBuffer[i]]]
                    /\ GpuOf(constantBuffers') = GpuOf(constantBuffers)
                    /\ UNCHANGED <<varTable, cbTable, constantBufferCount, shaderValid,
                                   context>>]_vars

\* SetFloat3 has cleared the first twelve bytes of a matrix that was all ones
C17_Witness ==
    /\ call.op = "SetFloat3"
    /\ call.name = "m"
    /\ call.ret
    /\ StagingOf(constantBuffers)[1] =
          [i \in 1..80 |-> IF i > 28 THEN 1 ELSE 0]

(* ------------------------------------------------------------------ *)
(* A compute program under every operation                               *)
(* ------------------------------------------------------------------ *)

\* compute shader: cbuffer { float x; } at slot 1, a texture, a sampler and a
\* read-write texture
CsFull == [readable |-> TRUE, stage |-> "compute",
           cbs |-> << [Name |-> "cb0", Type |-> "D3D11_CT_CBUFFER", Size |-> 4,
                       Variables |-> << [Name |-> "x", StartOffset |-> 0, Size |-> 4] >>] >>,
           res |-> << [Name |-> "cb0", Type |-> "D3D_SIT_CBUFFER", BindPoint |-> 1],
                      [Name |-> "tex", Type |-> "D3D_SIT_TEXTURE", BindPoint |-> 1],
                      [Name |-> "smp", Type |-> "D3D_SIT_SAMPLER", BindPoint |-> 2],
                      [Name |-> "out", Type |-> "D3D_SIT_UAV_RWTYPED", BindPoint |-> 0] >>,
           inputs |-> <<>>, outputs |-> <<>>, threads |-> <<2, 2, 2>>]

FullDisk == [f \in {"missing.cso", "vs.cso", "csFull.cso"} |->
               CASE f = "missing.cso" -> Missing
                 [] f = "vs.cso" -> VsPlain
                 [] f = "csFull.cso" -> CsFull]

\* names handed to the binding calls: one of each table and one of none
FullNames == {"tex", "smp", "out", "nope"}

InitFull ==
    /\ disk = FullDisk
    /\ Constructed("compute")
    /\ inputLayout = NoLayout
    /\ perInstanceCompatible = FALSE
    /\ NoStreamOut
    /\ caller = NoCaller

NextFull ==
    \/ \E f \in DOMAIN FullDisk : LoadShaderFile(f) /\ UNCHANGED caller
    \/ \E n \in {"x", "nope"} : SetData(n, <<1>>, 1) /\ UNCHANGED caller
    \/ \E n \in {"x", "nope"} : \E data \in Filled(SizeofFloat) :
          SetFloat(n, data) /\ UNCHANGED caller
    \/ CopyAllBufferData /\ UNCHANGED caller
    \/ \E index \in 0..MaxIndex : CopyBufferData(index) /\ UNCHANGED caller
    \/ \E n \in {"cb0", "nope"} : CopyBufferDataByName(n) /\ UNCHANGED caller
    \/ SetShader /\ UNCHANGED caller
    \/ \E n \in FullNames : SetShaderResourceView(n, "h1") /\ UNCHANGED caller
    \/ \E n \in FullNames : SetSamplerState(n, "h1") /\ UNCHANGED caller
    \/ \E n \in FullNames : SetUnorderedAccessView(n, "h1", 1) /\ UNCHANGED caller
    \/ DispatchByGroups(2, 2, 2) /\ UNCHANGED caller
    \/ DispatchByThreads(3, 3, 3) /\ UNCHANGED caller
    \/ \E n \in {"x", "nope"} : GetVariableInfo(n) /\ UNCHANGED caller
    \/ \E n \in {"cb0", "nope"} : GetBufferInfo(n) /\ UNCHANGED caller
    \/ \E n \in FullNames : GetShaderResourceViewInfo(n) /\ UNCHANGED caller
    \/ \E n \in FullNames : GetSamplerInfo(n) /\ UNCHANGED caller
    \/ \E n \in FullNames : GetUnorderedAccessViewIndex(n) /\ UNCHANGED caller

SpecFull == InitFull /\ [][NextFull]_vars

ViewOps == {"SetShaderResourceView", "SetSamplerState", "SetUnorderedAccessView"}

\* the resource types and the kind of slot each binding call is about
ViewTypes(op) ==
    CASE op = "SetShaderResourceView" -> TextureTypes
      [] op = "SetSamplerState" -> SamplerTypes
      [] op = "SetUnorderedAccessView" -> UavTypes

ViewKind(op) ==
    CASE op = "SetShaderResourceView" -> "srv"
      [] op = "SetSamplerState" -> "samp"
      [] op = "SetUnorderedAccessView" -> "uav"

\* the bind slots reflection reports for the name among the resources of the types
ReflectedSlots(name, types) ==
    {Loaded.res[r].BindPoint :
        r \in {q \in DOMAIN Loaded.res : /\ Loaded.res[q].Name = name
                                          /\ Loaded.res[q].Type \in types}}

\* C16: SetShaderResourceView, SetSamplerState and SetUnorderedAccessView return
\* true exactly when the loaded binary reports the name as a resource, a sampler
\* or an unordered-access view respectively; on a hit the handle is put at the
\* reflected slot of that kind on the program's own stage and every other slot of
\* every stage keeps its binding; on a miss nothing changes.
C16_BindViews ==
    [][call'.op \in ViewOps =>
         LET slots == ReflectedSlots(call'.name, ViewTypes(call'.op)) IN
         /\ call'.ret <=> slots # {}
         /\ UNCHANGED <<disk, stage, object, activeShader, iaLayout>>
         /\ \A key \in DOMAIN bound :
               IF key[1] = stage /\ key[2] = ViewKind(call'.op) /\ key[3] \in slots
               THEN bound'[key].obj = call'.handle
               ELSE bound'[key] = bound[key]]_vars

\* a view of each kind has been bound on the compute stage
C16_Witness ==
    /\ call.op = "SetUnorderedAccessView"
    /\ call.ret
    /\ bound[<<"compute", "uav", 0>>].obj = "h1"
    /\ bound[<<"compute", "srv", 1>>].obj = "h1"
    /\ bound[<<"compute", "samp", 2>>].obj = "h1"
    /\ bound[<<"compute", "srv", 0>>].obj = "null"

\* what reflection fixed at load: the name sets of the five tables and what they
\* map to, the ordered descriptors with their slots and indices, the buffer count
\* and each buffer's name, kind, slot, size and variables
Structure ==
    <<varTable, cbTable, samplerTable, textureTable, uavTable,
      shaderResourceViews, samplerStates, constantBufferCount,
      [b \in DOMAIN constantBuffers |->
         <<constantBuffers[b].Name, constantBuffers[b].Type, constantBuffers[b].BindIndex,
           constantBuffers[b].Size, constantBuffers[b].Variables>>],
      threadsX, threadsY, threadsZ>>

\* C20: no call other than a load (SetData, a typed setter, an upload, SetShader,
\* a binding call, a dispatch, a lookup) changes a table's names or entries, a bind
\* slot, an ordered index, a variable's offset or size, the buffer count or a
\* buffer's size.
C20_StructureFixed ==
    [][call'.op # "LoadShaderFile" => Structure' = Structure]_vars

\* staged bytes of a loaded program have been uploaded after views were bound
C20_Witness ==
    /\ shaderValid
    /\ call.op = "CopyBufferData"
    /\ call.gpu # <<>>
    /\ GpuOf(constantBuffers)[1] = <<1, 1, 1, 1>>
    /\ bound[<<"compute", "uav", 0>>].obj = "h1"
    /\ activeShader["compute"] = "csFull.cso"
    /\ constantBuffers[1].BindIndex = 1

\* C18: in every state each buffer's staging block is as long as the buffer's
\* size, which on a valid program is the size reflection reports; and when a load
\* has just succeeded every staging byte is zero.
C18_StagingLength ==
    /\ \A b \in DOMAIN constantBuffers :
          /\ Len(constantBuffers[b].LocalDataBuffer) = constantBuffers[b].Size
          /\ shaderValid => constantBuffers[b].Size = disk[shader].cbs[b].Size
    /\ shaderValid => DOMAIN constantBuffers = DOMAIN disk[shader].cbs
    /\ (call.op = "LoadShaderFile" /\ call.ret)
          => \A b \in DOMAIN constantBuffers :
                \A i \in DOMAIN constantBuffers[b].LocalDataBuffer :
                   constantBuffers[b].LocalDataBuffer[i] = 0

\* a load of a binary with a two-byte and a one-byte buffer has just succeeded
C18_Witness ==
    /\ call.op = "LoadShaderFile"
    /\ call.ret
    /\ shader = "psA.cso"
    /\ constantBuffers[1].LocalDataBuffer = <<0, 0>>
    /\ constantBuffers[2].LocalDataBuffer = <<0>>

\* the bytes of every staging block that lie outside the variable var
OutsideOf(cbs, var) ==
    [b \in DOMAIN cbs |->
       [i \in DOMAIN cbs[b].LocalDataBuffer |->
          IF /\ b = var.ConstantBufferIndex + 1
             /\ i > var.ByteOffset
             /\ i <= var.ByteOffset + var.Size
          THEN 0 ELSE cbs[b].LocalDataBuffer[i]]]

\* every entry of the table names one of the count buffers and lies inside it
InBounds(table, count, cbs) ==
    \A name \in DOMAIN table :
       LET var == table[name] IN
       /\ var.ConstantBufferIndex < count
       /\ var.ConstantBufferIndex + 1 \in DOMAIN cbs
       /\ var.ByteOffset + var.Size <= cbs[var.ConstantBufferIndex + 1].Size
       /\ var.ByteOffset + var.Size <= Len(cbs[var.ConstantBufferIndex + 1].LocalDataBuffer)

\* C19: after every step each entry of the variable table names a buffer below
\* the buffer count and lies with offset plus size inside that buffer's size; and
\* a SetData that returns true leaves every staging byte outside the variable it
\* names, in its own buffer and in every other, as it was.
C19_VariablesInBounds ==
    [][/\ InBounds(varTable', constantBufferCount', constantBuffers')
       /\ (call'.op = "SetData" /\ call'.ret)
             => /\ call'.name \in DOMAIN varTable
                /\ call'.size <= varTable[call'.name].Size
                /\ OutsideOf(constantBuffers', varTable[call'.name])
                      = OutsideOf(constantBuffers, varTable[call'.name])]_vars

\* a SetData that returned true has written the last byte of the buffer
C19_Witness ==
    /\ call.op = "SetData"
    /\ call.ret
    /\ call.name = "x"
    /\ call.size = 1
    /\ shader = "psB.cso"
    /\ varTable["x"].ByteOffset = 1
    /\ constantBuffers[1].LocalDataBuffer = <<0, 1>>

(* ------------------------------------------------------------------ *)
(* Reloads, lookups by index and release                                 *)
(* ------------------------------------------------------------------ *)

\* compute shader that shares no name with CsFull: cbuffer cb1 { y }, a texture,
\* a sampler and a read-write texture
CsOther == [readable |-> TRUE, stage |-> "compute",
            cbs |-> << [Name |-> "cb1", Type |-> "D3D11_CT_CBUFFER", Size |-> 2,
                        Variables |-> << [Name |-> "y", StartOffset |-> 0, Size |-> 2] >>] >>,
            res |-> << [Name |-> "cb1", Type |-> "D3D_SIT_CBUFFER", BindPoint |-> 0],
                       [Name |-> "img", Type |-> "D3D_SIT_TEXTURE", BindPoint |-> 0],
                       [Name |-> "lin", Type |-> "D3D_SIT_SAMPLER", BindPoint |-> 0],
                       [Name |-> "dst", Type |-> "D3D_SIT_UAV_RWTYPED", BindPoint |-> 1] >>,
            inputs |-> <<>>, outputs |-> <<>>, threads |-> <<1, 1, 1>>]

ReloadDisk == [f \in {"missing.cso", "vs.cso", "csFull.cso", "csOther.cso"} |->
                 CASE f = "missing.cso" -> Missing
                   [] f = "vs.cso" -> VsPlain
                   [] f = "csFull.cso" -> CsFull
                   [] f = "csOther.cso" -> CsOther]

\* the names of both binaries
ReloadNames == {"x", "y", "cb0", "cb1", "tex", "img", "smp", "lin", "out", "dst"}

\* what a read through a pointer to a deleted descriptor may give: the bytes the
\* descriptor held, or those of a descriptor allocated since
ReadOfDeleted(list) ==
    {<<list[i].BindIndex, list[i].Index>> : i \in DOMAIN list}

\* return list[index], or 0 when index >= list.size(); handle tells whether the
\* pointer handed back is to a deleted descriptor
DescriptorAt(op, list, index) ==
    /\ ~crashed
    /\ IF index >= Len(list)
       THEN call' = [NoCall EXCEPT !.op = op, !.index = index]
       ELSE LET d == list[index + 1] IN
            IF d.live
            THEN call' = [NoCall EXCEPT !.op = op, !.index = index, !.ret = TRUE,
                                        !.data = <<d.BindIndex, d.Index>>]
            ELSE \E data \in ReadOfDeleted(list) :
                    call' = [NoCall EXCEPT !.op = op, !.index = index, !.ret = TRUE,
                                           !.data = data, !.handle = "deleted"]
    /\ UNCHANGED <<disk, stage, object, context>>

GetShaderResourceViewInfoAt(index) ==
    DescriptorAt("GetShaderResourceViewInfoAt", shaderResourceViews, index)

GetSamplerInfoAt(index) == DescriptorAt("GetSamplerInfoAt", samplerStates, index)

GetBufferInfoAt(index) ==
    /\ ~crashed
    /\ IF IndexOutOfRange(index)
       THEN call' = [NoCall EXCEPT !.op = "GetBufferInfoAt", !.index = index]
       ELSE call' = [NoCall EXCEPT !.op = "GetBufferInfoAt", !.index = index,
                                   !.ret = TRUE,
                                   !.data = <<index, constantBuffers[index + 1].BindIndex,
                                              constantBuffers[index + 1].Size>>]
    /\ UNCHANGED <<disk, stage, object, context>>

\* the destructor of a stage: CleanUp; a block deleted twice either ends the
\* process in the heap check or goes unnoticed
Destructor ==
    /\ ~crashed
    /\ LET c == CleanUp IN
       \/ /\ CleanUpFreesTwice
          /\ crashed' = TRUE
          /\ call' = [NoCall EXCEPT !.op = "crash", !.name = "Destructor"]
          /\ UNCHANGED <<disk, stage, shaderValid, shader, constantBufferCount,
                         constantBuffers, cbPtr, varTable, cbTable, samplerTable,
                         textureTable, uavTable, shaderResourceViews, samplerStates,
                         threadsX, threadsY, threadsZ, inputLayout,
                         perInstanceCompatible, useStreamOut,
                         allowStreamOutRasterization, streamOutVertexSize, freedTwice,
                         context>>
       \/ /\ constantBufferCount' = c.constantBufferCount
          /\ constantBuffers' = c.constantBuffers
          /\ cbPtr' = c.cbPtr
          /\ shaderResourceViews' = c.shaderResourceViews
          /\ samplerStates' = c.samplerStates
          /\ varTable' = c.varTable
          /\ cbTable' = c.cbTable
          /\ samplerTable' = c.samplerTable
          /\ textureTable' = c.textureTable
          /\ uavTable' = c.uavTable
          /\ freedTwice' = (freedTwice \/ CleanUpFreesTwice)
          /\ call' = [NoCall EXCEPT !.op = "Destructor"]
          /\ UNCHANGED <<disk, stage, shaderValid, shader, threadsX, threadsY, threadsZ,
                         inputLayout, perInstanceCompatible, useStreamOut,
                         allowStreamOutRasterization, streamOutVertexSize, crashed,
                         context>>

\* the object has not been destroyed
Alive == call.op # "Destructor"

InitReload ==
    /\ disk = ReloadDisk
    /\ Constructed("compute")
    /\ inputLayout = NoLayout
    /\ perInstanceCompatible = FALSE
    /\ NoStreamOut
    /\ caller = NoCaller

NextReload ==
    \/ \E f \in DOMAIN ReloadDisk : Alive /\ LoadShaderFile(f) /\ UNCHANGED caller
    \/ \E n \in ReloadNames : Alive /\ GetVariableInfo(n) /\ UNCHANGED caller
    \/ \E n \in ReloadNames : Alive /\ GetBufferInfo(n) /\ UNCHANGED caller
    \/ \E n \in ReloadNames : Alive /\ GetShaderResourceViewInfo(n) /\ UNCHANGED caller
    \/ \E n \in ReloadNames : Alive /\ GetSamplerInfo(n) /\ UNCHANGED caller
    \/ \E n \in ReloadNames : Alive /\ GetUnorderedAccessViewIndex(n) /\ UNCHANGED caller
    \/ \E i \in 0..MaxIndex : Alive /\ GetShaderResourceViewInfoAt(i) /\ UNCHANGED caller
    \/ \E i \in 0..MaxIndex : Alive /\ GetSamplerInfoAt(i) /\ UNCHANGED caller
    \/ \E i \in 0..MaxIndex : Alive /\ GetBufferInfoAt(i) /\ UNCHANGED caller
    \/ Alive /\ Destructor /\ UNCHANGED caller

SpecReload == InitReload /\ [][NextReload]_vars

\* how many resources of the types reflection reports for the loaded binary
ReflectedCount(types) ==
    Cardinality({r \in DOMAIN Loaded.res : Loaded.res[r].Type \in types})

\* every name of the table leads to a live descriptor that sits in the ordered
\* list at the position its own Index gives
NameAndIndexAgree(table, list) ==
    \A n \in DOMAIN table :
       /\ table[n] \in DOMAIN list
       /\ list[table[n]].live
       /\ list[table[n]].Index + 1 = table[n]

\* C21: the index form of GetShaderResourceViewInfo and GetSamplerInfo gives
\* not-found exactly when the index is not below the number of resources of that
\* kind in the loaded binary, and otherwise a live descriptor whose Index is the
\* index asked for; and the descriptor a name leads to is the one found at that
\* descriptor's Index, also after reloads.
C21_IndexLookup ==
    /\ NameAndIndexAgree(textureTable, shaderResourceViews)
    /\ NameAndIndexAgree(samplerTable, samplerStates)
    /\ call.op \in {"GetShaderResourceViewInfoAt", "GetSamplerInfoAt"}
       => LET count == IF call.op = "GetShaderResourceViewInfoAt"
                       THEN ReflectedCount(TextureTypes)
                       ELSE ReflectedCount(SamplerTypes)
          IN /\ call.ret <=> call.index < count
             /\ call.ret => /\ call.handle # "deleted"
                            /\ call.data[2] = call.index

\* C22: when a load, a reload included, has just returned true, the five tables
\* hold exactly the names reflection reports for the binary loaded, the buffer
\* store has its buffers, the lookups by index accept exactly the indices below
\* the binary's numbers of buffers, resources and samplers, and every staging
\* byte is zero.
C22_ReloadRebuilds ==
    (call.op = "LoadShaderFile" /\ call.ret)
    => LET d == disk[call.name] IN
       /\ DOMAIN varTable = ReflectedNames(d, VariableProbes)
       /\ DOMAIN cbTable = ReflectedNames(d, BufferProbes)
       /\ DOMAIN textureTable = ReflectedNames(d, ResourceProbes)
       /\ DOMAIN samplerTable = ReflectedNames(d, SamplerProbes)
       /\ DOMAIN uavTable = ReflectedNames(d, UavProbes)
       /\ constantBufferCount = Len(d.cbs)
       /\ \A b \in DOMAIN constantBuffers :
             /\ constantBuffers[b].Name = d.cbs[b].Name
             /\ constantBuffers[b].LocalDataBuffer = [i \in 1..d.cbs[b].Size |-> 0]
       /\ Len(shaderResourceViews) = ReflectedCount(TextureTypes)
       /\ Len(samplerStates) = ReflectedCount(SamplerTypes)

\* C23: over loads, reloads and the final release no block is deleted twice (so
\* the heap check never ends the process), no pointer to a deleted descriptor is
\* handed out, and after the destructor nothing the object owned is still
\* allocated.
C23_FreedExactlyOnce ==
    /\ ~freedTwice
    /\ ~crashed
    /\ call.handle # "deleted"
    /\ call.op = "Destructor"
       => /\ cbPtr # "live"
          /\ \A i \in DOMAIN shaderResourceViews : ~shaderResourceViews[i].live
          /\ \A i \in DOMAIN samplerStates : ~samplerStates[i].live

\* C24: CreateCompatibleStreamOutBuffer returns false without a device call when
\* stream output is off, the program is invalid or the stride is zero; otherwise
\* it asks once for a buffer of stride times vertexCount bytes and returns whether
\* the device created it.
C24_StreamOutBuffer ==
    call.op = "CreateCompatibleStreamOutBuffer"
    => IF ~useStreamOut \/ ~shaderValid \/ streamOutVertexSize = 0
       THEN ~call.ret /\ call.gpu = <<>>
       ELSE /\ Len(call.gpu) = 1
            /\ call.gpu[1].fn = "CreateBuffer"
            /\ call.gpu[1].data = ProductUnbounded(streamOutVertexSize, call.index)
            /\ call.ret <=> call.gpu[1].obj = "S_OK"

\* the names reflection reports for resources of the types in binary d
NamesOfTypes(d, types) ==
    {d.res[r].Name : r \in {q \in DOMAIN d.res : d.res[q].Type \in types}}

\* C25: when a load has just returned true, the resource table holds exactly the
\* texture and structured-buffer resources, the sampler table exactly the sampler
\* resources, the unordered-access table exactly the resources of the six
\* unordered-access types and only on a compute program, each at its reflected
\* bind point; a resource of another type is in none of them; and each ordered
\* list has as many entries as the binary has resources of that kind.
C25_Classification ==
    (call.op = "LoadShaderFile" /\ call.ret)
    => LET d == disk[call.name] IN
       /\ DOMAIN textureTable = NamesOfTypes(d, TextureTypes)
       /\ DOMAIN samplerTable = NamesOfTypes(d, SamplerTypes)
       /\ DOMAIN uavTable = IF stage = "compute" THEN NamesOfTypes(d, UavTypes) ELSE {}
       /\ \A r \in DOMAIN d.res :
             /\ d.res[r].Type \in TextureTypes
                => shaderResourceViews[textureTable[d.res[r].Name]].BindIndex
                      = d.res[r].BindPoint
             /\ d.res[r].Type \in SamplerTypes
                => samplerStates[samplerTable[d.res[r].Name]].BindIndex = d.res[r].BindPoint
             /\ (d.res[r].Type \in UavTypes /\ stage = "compute")
                => uavTable[d.res[r].Name] = d.res[r].BindPoint
             /\ d.res[r].Type \notin (TextureTypes \cup SamplerTypes \cup UavTypes)
                => d.res[r].Name \notin
                      (DOMAIN textureTable \cup DOMAIN samplerTable \cup DOMAIN uavTable)
       /\ Len(shaderResourceViews) = Cardinality(NamesOfTypes(d, TextureTypes))
       /\ Len(samplerStates) = Cardinality(NamesOfTypes(d, SamplerTypes))

(* ------------------------------------------------------------------ *)
(* The format of a synthesized input element                             *)
(* ------------------------------------------------------------------ *)

\* masks and component types an input-signature entry can report
FormatMasks == 0..16
ComponentTypes == {"D3D_REGISTER_COMPONENT_UNKNOWN", "D3D_REGISTER_COMPONENT_UINT32",
                   "D3D_REGISTER_COMPONENT_SINT32", "D3D_REGISTER_COMPONENT_FLOAT32"}

\* the files of the format runs: a vertex shader with one input of the given
\* mask and component type
FormatDisk(mask, ctype) ==
    [f \in {"missing.cso", "vs.cso"} |->
        IF f = "missing.cso" THEN Missing
        ELSE Vs(<< [SemanticName |-> NamePosition, SemanticIndex |-> 0, Mask |-> mask,
                    ComponentType |-> ctype] >>)]

InitFormat ==
    /\ \E mask \in FormatMasks, ctype \in ComponentTypes : disk = FormatDisk(mask, ctype)
    /\ Constructed("vertex")
    /\ inputLayout = NoLayout
    /\ perInstanceCompatible = FALSE
    /\ NoStreamOut
    /\ caller = NoCaller

NextFormat ==
    \/ \E f \in DOMAIN disk : LoadShaderFile(f) /\ UNCHANGED caller
    \/ SetShader /\ UNCHANGED caller

SpecFormat == InitFormat /\ [][NextFormat]_vars

\* the scalar kind of a format for the three component types
KindOf(ctype) ==
    CASE ctype = "D3D_REGISTER_COMPONENT_UINT32" -> "UINT"
      [] ctype = "D3D_REGISTER_COMPONENT_SINT32" -> "SINT"
      [] ctype = "D3D_REGISTER_COMPONENT_FLOAT32" -> "FLOAT"

\* the position (1..4) of the highest component the mask names
HighestComponent(mask) ==
    CHOOSE n \in 1..4 : Pow2(n - 1) <= mask /\ mask < Pow2(n)

\* the synthesized elements of this load have formats given by components(mask)
FormatsAre(components(_)) ==
    \A c \in DOMAIN call.gpu :
       call.gpu[c].fn = "CreateInputLayout"
       => \A i \in DOMAIN call.gpu[c].elems :
             LET p == disk[call.name].inputs[i] IN
             (p.Mask \in 1..15 /\ p.ComponentType # "D3D_REGISTER_COMPONENT_UNKNOWN")
             => call.gpu[c].elems[i].Format =
                   [components |-> components(p.Mask), kind |-> KindOf(p.ComponentType)]

\* C26 as stated: for every mask 1..15 and each of the three scalar types the
\* element's format has as many components as the mask has bits set, and the
\* entry's scalar kind.
C26_FormatByActiveCount == FormatsAre(LowBitsSet)

\* C26, amended: for every mask 1..15 and each of the three scalar types the
\* element's format has the entry's scalar kind and reaches up to the highest
\* component the mask names: 1 for mask 1, 2 for masks 2..3, 3 for masks 4..7, 4
\* for masks 8..15; that is the number of active components for the masks 1, 3, 7
\* and 15.
C26_FormatByHighest ==
    /\ FormatsAre(HighestComponent)
    /\ \A mask \in {1, 3, 7, 15} : HighestComponent(mask) = LowBitsSet(mask)

\* a layout has been synthesized for an entry that uses components x and z
C26_Witness ==
    /\ call.op = "LoadShaderFile"
    /\ call.ret
    /\ disk["vs.cso"].inputs[1].Mask = 5
    /\ disk["vs.cso"].inputs[1].ComponentType = "D3D_REGISTER_COMPONENT_SINT32"
    /\ inputLayout.set
    /\ inputLayout.elems[1].Format = [components |-> 3, kind |-> "SINT"]

(* ------------------------------------------------------------------ *)
(* The per-instance flag and the layout of a vertex program              *)
(* ------------------------------------------------------------------ *)

\* the loaded signature has an entry whose semantic name ends with the marker
CarriesMarker(d) ==
    \E i \in DOMAIN d.inputs : EndsWithMarker(d.inputs[i].SemanticName)

\* C27: a vertex program built without a caller layout has, after a successful
\* load, the per-instance flag true exactly when an entry of the loaded input
\* signature ends with the marker; a program built with a caller layout never
\* synthesizes one, activation sets the caller's layout, and no load or
\* activation changes its flag.
C27_PerInstanceFlag ==
    [][/\ (call'.op = "LoadShaderFile" /\ call'.ret /\ ~inputLayout'.custom)
          => (perInstanceCompatible' <=> CarriesMarker(disk[call'.name]))
       /\ inputLayout.custom
          => /\ inputLayout' = inputLayout
             /\ perInstanceCompatible' = perInstanceCompatible
             /\ \A c \in DOMAIN call'.gpu : call'.gpu[c].fn # "CreateInputLayout"
             /\ (call'.op = "SetShader" /\ shaderValid) => iaLayout' = CustomLayout]_vars

\* C27 for the first successful load of a program and for caller layouts
C27_FirstLoad ==
    [][/\ (call'.op = "LoadShaderFile" /\ call'.ret /\ ~inputLayout.custom
           /\ shader = "null")
          => (perInstanceCompatible' <=> CarriesMarker(disk[call'.name]))
       /\ inputLayout.custom
          => /\ inputLayout' = inputLayout
             /\ perInstanceCompatible' = perInstanceCompatible
             /\ \A c \in DOMAIN call'.gpu : call'.gpu[c].fn # "CreateInputLayout"
             /\ (call'.op = "SetShader" /\ shaderValid) => iaLayout' = CustomLayout]_vars

(* ------------------------------------------------------------------ *)
(* Two compute programs on one device context                            *)
(* ------------------------------------------------------------------ *)

\* the shader object of a second compute program that shares the device context
OtherShader == "other.cso"

\* SetShaderAndCBs of the second program, which is valid and has no constant
\* buffer: CSSetShader with its shader
OtherSetShader ==
    /\ ~crashed
    /\ activeShader' = [activeShader EXCEPT !["compute"] = OtherShader]
    /\ call' = [NoCall EXCEPT !.op = "OtherSetShader",
                              !.gpu = <<GpuCall("CSSetShader", 0, OtherShader, 0, "", <<>>)>>]
    /\ UNCHANGED <<disk, stage, object, bound, iaLayout>>

\* the caller's record of the last activation on the compute stage: whose it was
\* and which shader object it set
Activated(who, what) == caller' = [caller EXCEPT !.pc = who, !.name = what]

InitDispatch ==
    /\ disk = ComputeDisk
    /\ Constructed("compute")
    /\ inputLayout = NoLayout
    /\ perInstanceCompatible = FALSE
    /\ NoStreamOut
    /\ caller = [NoCaller EXCEPT !.pc = "none", !.name = "null"]

NextDispatch ==
    \/ \E f \in DOMAIN disk : LoadShaderFile(f) /\ UNCHANGED caller
    \/ SetShader /\ IsShaderValid /\ Activated("this", shader)
    \/ SetShader /\ ~IsShaderValid /\ UNCHANGED caller
    \/ OtherSetShader /\ Activated("other", OtherShader)
    \/ \E x \in GroupCounts, y \in GroupCounts, z \in GroupCounts :
          DispatchByGroups(x, y, z) /\ UNCHANGED caller
    \/ \E x \in Desired, y \in DesiredMinor, z \in DesiredMinor :
          DispatchByThreads(x, y, z) /\ UNCHANGED caller

SpecDispatch == InitDispatch /\ [][NextDispatch]_vars

\* C28: DispatchByGroups issues exactly one Dispatch, with the group counts it
\* was given; a dispatch by groups or by threads leaves the device context as it
\* is, so the compute shader that runs is the one set by the last activation on
\* the compute stage, and it is set by this program only if this program's
\* SetShader was that last activation.
C28_DispatchRunsActive ==
    [][call'.op \in {"DispatchByGroups", "DispatchByThreads"}
       => /\ Len(call'.gpu) = 1
          /\ call'.gpu[1].fn = "Dispatch"
          /\ call'.op = "DispatchByGroups" => call'.gpu[1].data = call'.data
          /\ context' = context
          /\ activeShader["compute"] = caller.name
          /\ caller.pc # "this" => activeShader["compute"] \in {"null", OtherShader}]_vars

\* a dispatch by groups with different counts on the axes, called on a valid
\* program while the shader of the other program is the active one
C28_Witness ==
    /\ call.op = "DispatchByGroups"
    /\ call.data = <<0, 2, 2>>
    /\ call.gpu = <<Dispatch(0, 2, 2)>>
    /\ shaderValid
    /\ caller.pc = "other"
    /\ activeShader["compute"] = OtherShader
    /\ activeShader["compute"] # shader

(* ------------------------------------------------------------------ *)
(* A load that the device refuses                                        *)
(* ------------------------------------------------------------------ *)

\* the last call was a load whose blob was read and whose shader object the
\* device did not create
CreateFailed ==
    /\ call.op = "LoadShaderFile"
    /\ ~call.ret
    /\ call.gpu # <<>>

\* C29: after a load whose shader-object creation failed the program is
\* invalid, its constant-buffer count is zero and every table is empty, so no
\* name of the binary loaded before resolves; nothing of the earlier load is
\* restored.
C29_FailedReload ==
    CreateFailed
    => /\ ~shaderValid
       /\ constantBufferCount = 0
       /\ constantBuffers = <<>>
       /\ \A t \in {varTable, cbTable, textureTable, samplerTable, uavTable} :
             DOMAIN t = {}
       /\ \A n \in UNION {ReflectedNames(d, k) : d \in {CsFull, CsOther}, k \in ProbeKinds} :
             /\ ~FindVariable(n).found
             /\ ~HasShaderResourceView(n)
             /\ ~HasSamplerState(n)
             /\ ~HasUnorderedAccessView(n)

\* the device has refused vs.cso on a compute program that had loaded
\* csFull.cso, whose buffers and descriptors are deleted
C29_Witness ==
    /\ CreateFailed
    /\ call.name = "vs.cso"
    /\ shader = "csFull.cso"
    /\ cbPtr = "freed"
    /\ Len(shaderResourceViews) = 1
    /\ ~shaderResourceViews[1].live

(* ------------------------------------------------------------------ *)
(* A vertex program whose input layout the device did not create         *)
(* ------------------------------------------------------------------ *)

\* the load asked the device for an input layout
AskedForLayout(c) == \E i \in DOMAIN c.gpu : c.gpu[i].fn = "CreateInputLayout"

\* C30: a load of a vertex program that created the shader object and asked for
\* a synthesized input layout returns true and leaves the program valid also
\* when the device created no layout; activating a valid vertex program that has
\* no input layout sets the absent layout on the input assembler and then the
\* program's vertex shader.
C30_ValidWithoutLayout ==
    [][/\ (call'.op = "LoadShaderFile" /\ AskedForLayout(call') /\ ~inputLayout'.set)
          => call'.ret /\ shaderValid' /\ shader' = call'.name
       /\ (call'.op = "SetShader" /\ stage = "vertex" /\ shaderValid /\ ~inputLayout.set)
          => /\ Len(call'.gpu) >= 2
             /\ call'.gpu[1].fn = "IASetInputLayout"
             /\ call'.gpu[1].elems = <<>>
             /\ call'.gpu[2].fn = "VSSetShader"
             /\ call'.gpu[2].file = shader
             /\ iaLayout' = NoLayout
             /\ activeShader' = [activeShader EXCEPT !["vertex"] = shader]]_vars

\* a program whose one input has no known component type, so that its loads
\* created no layout, has been activated with the absent layout
C30_Witness ==
    /\ call.op = "SetShader"
    /\ shaderValid
    /\ shader = "vs.cso"
    /\ Len(disk["vs.cso"].inputs) = 1
    /\ disk["vs.cso"].inputs[1].ComponentType = "D3D_REGISTER_COMPONENT_UNKNOWN"
    /\ ~inputLayout.set
    /\ iaLayout = NoLayout
    /\ activeShader["vertex"] = "vs.cso"
    /\ Len(call.gpu) >= 2
    /\ call.gpu[1].fn = "IASetInputLayout"

====
